---- MODULE Spec2Model ----
(***************************************************************************)
(* Activity-Trending: the synchronisation engine of src/App.tsx,           *)
(* src/services/stravaService.ts and src/services/db.ts as a state machine.*)
(*                                                                         *)
(* Conventions.  A JSON value that may be absent is modelled by an         *)
(* "empty" value of the same shape: "" for a string and 0 for a number     *)
(* (both are falsy in the source, which tests them with !x and x && ...),  *)
(* has_efforts = FALSE for an activity without segment_efforts.  Dates are *)
(* parsable ISO timestamps, modelled by the number Date.getTime() gives.   *)
(*                                                                         *)
(* App is a React function component: a handler is a closure over the      *)
(* state values of the render it was created in.  A running handler keeps  *)
(* reading those values (its "cap" record below) however the state         *)
(* changes while it is suspended at an await.                              *)
(***************************************************************************)
EXTENDS Integers, Sequences, FiniteSets, TLC

\* ------------------------------------------------------------------ bounds
\* Longest explicit prefix of remote list pages (the remote's tail follows).
MaxScript == 2
\* Times the clock may advance.
MaxTicks == 2
\* Handler invocations in one behaviour.
MaxOps == 2

\* ------------------------------------------------------- program constants
perPage == 200
MaxEffortPages == 50
MaxActivityPages == 500
ExpiryMargin == 60
MaxCandidates == 15

\* --------------------------------------------------------------- sequences
RECURSIVE Flatten(_)
Flatten(ss) == IF ss = <<>> THEN <<>> ELSE Head(ss) \o Flatten(Tail(ss))

Range(s) == {s[i] : i \in 1..Len(s)}

\* ---------------------------------------------------------------- records
\* An activity; the list endpoint gives summaries (no segment_efforts), the
\* detail endpoint the same activity with its segment efforts.
Activity(i, date, efforts) ==
    [id |-> i, start_date |-> date, type |-> "Run",
     distance |-> 10000 + 100 * i, total_elevation_gain |-> 100,
     has_latlng |-> TRUE, start_latlng |-> 1,
     has_efforts |-> TRUE, segment_efforts |-> efforts]
Summary(i) == [Activity(i, 3 - i, <<>>) EXCEPT !.has_efforts = FALSE]
\* selectedActivity = null
NoActivity == [Summary(0) EXCEPT !.start_date = 0]
Effort(i, seg, date, time) == [id |-> i, segment |-> seg, start_date |-> date, elapsed_time |-> time]
\* selectedSegmentDetail = null, and a segment detail
NoSegment == [id |-> 0, name |-> ""]
Segment(i) == [id |-> i, name |-> "climb"]

\* The segment whose row is clicked; the other segments have greater ids.
SegmentId == 1

\* ------------------------------------------------------------ the transport
\* What one call of fetchWithProxyFallback gives its caller: the parsed JSON
\* (a list, or an object) or a thrown Error(msg).
ReturnList(items) == [kind |-> "list", items |-> items, msg |-> ""]
\* A JSON object: items holds it, or nothing when the caller reads no field.
ReturnObject(obj) == [kind |-> "object", items |-> <<obj>>, msg |-> ""]
ReturnNotList == [kind |-> "object", items |-> <<>>, msg |-> ""]
Throw(m) == [kind |-> "throw", items |-> <<>>, msg |-> m]

\* err.message.includes("Unauthorized") || err.message.includes("401"), on
\* the messages that occur in the model (the table lists those that hold
\* either substring).
IncludesUnauthorizedOr401(m) ==
    m \in {"Unauthorized: Check credentials.",
           "Unauthorized: Access token is invalid or expired.",
           "Unauthorized"}

\* An HTTP exchange: status 0 stands for fetch() itself rejecting (network
\* or CORS failure); message is the "message" of a JSON error body ("" when
\* the body has none or is not JSON); json is the body of a 2xx response.
Http(status, message, json) == [status |-> status, message |-> message, json |-> json]

fetchWithProxyFallback(direct, proxy) ==
    IF direct.status = 200 THEN direct.json
    ELSE LET err == IF direct.status = 0 THEN "Failed to fetch"
                    ELSE IF direct.status = 401
                         THEN (IF direct.message # "" THEN direct.message
                               ELSE "Unauthorized: Check credentials.")
                         ELSE "Direct API Error: 500"
         IN IF IncludesUnauthorizedOr401(err) THEN Throw(err)
            ELSE IF proxy.status = 0 THEN Throw("Failed to fetch")
            ELSE IF proxy.status # 200
                 THEN (IF proxy.status = 401
                       THEN Throw("Unauthorized: Access token is invalid or expired.")
                       ELSE Throw("API Error (via Proxy): 500"))
                 ELSE proxy.json

\* ------------------------------------------------------------- the remote
\* The exchanges the network can produce for a request whose 2xx body is json.
Exchanges(json) ==
    {Http(200, "", json), Http(401, "", json), Http(401, "Authorization Error", json),
     Http(500, "", json), Http(0, "", json)}

\* Every outcome fetchWithProxyFallback can give when the 2xx body is one of jsons.
Outcomes(jsons) ==
    {fetchWithProxyFallback(d, p) : d \in UNION {Exchanges(j) : j \in jsons},
                                    p \in UNION {Exchanges(j) : j \in jsons}}

ActivityPages == {<<>>, <<Summary(1)>>, <<Summary(2)>>, <<Summary(1), Summary(2)>>}
\* A remote effort differs from the copy embedded in a local activity.
RemoteEffort(i) == Effort(i, SegmentId, 3 - i, 100 + i)
EffortPages == {<<>>, <<RemoteEffort(1)>>, <<RemoteEffort(2)>>, <<RemoteEffort(2), RemoteEffort(1)>>}

ListOutcomes(pages) == Outcomes({ReturnList(p) : p \in pages} \cup {ReturnNotList})

\* A remote list endpoint: the outcomes of the requests for pages
\* 1..Len(script), and the outcome of every request after them.
Remotes(outs, tails) ==
    {[script |-> s, tail |-> t] :
        s \in UNION {[1..n -> outs] : n \in 0..MaxScript}, t \in tails}

PageOutcome(remote, p) == IF p <= Len(remote.script) THEN remote.script[p] ELSE remote.tail

ActivityTails == {ReturnList(<<>>), ReturnList(<<Summary(1)>>)}
EffortTails == {ReturnList(<<>>), ReturnList(<<RemoteEffort(1)>>)}
EndedRemote == [script |-> <<>>, tail |-> ReturnList(<<>>)]

\* ----------------------------------------------------------------- state
VARIABLES
    remoteActivities,        \* GET /athlete/activities, by page
    remoteEfforts,           \* GET /segment_efforts, by page
    issued,                  \* token responses the remote has issued
    now,                     \* Math.floor(Date.now() / 1000)
    auth,                    \* App state: clientId, clientSecret, accessToken, refreshToken, expiresAt
    localStorage,            \* strava_access_token, strava_refresh_token, strava_expires_at
    db,                      \* db.activities, a table keyed by id
    activities,              \* App state
    loading,                 \* App state
    syncProgress,            \* App state
    view,                    \* App state
    selectedActivity,        \* App state
    refining,                \* App state
    useSegmentMatching,      \* App state
    selectedSegmentDetail,   \* App state
    selectedSegmentEfforts,  \* App state
    loadingSegment,          \* App state
    segmentDownloadProgress, \* App state
    sync,                    \* the running handleSync call
    seg,                     \* the running handleSegmentClick call
    ref,                     \* the running refineMatches call
    fa,                      \* the running fetchAllActivities call
    se,                      \* the running fetchSegmentEfforts call
    opsStarted,              \* handler invocations so far
    netLog,                  \* requests and delays, in order (history)
    progressLog,             \* progress callback invocations (history)
    tokenLog,                \* getValidToken calls, in order (history)
    lastSync,                \* how the last handleSync call ended (history)
    lastSeg,                 \* how the last handleSegmentClick call ended (history)
    transport,               \* the running fetchWithProxyFallback call, attempt by attempt
    authCode,                \* the authorization popup and the running handleAuthCode calls
    refineLog                \* how the refineMatches calls ended, in order (history)

remoteVars == <<remoteActivities, remoteEfforts>>
authVars == <<auth, localStorage>>
syncView == <<loading, syncProgress, view>>
activityView == <<selectedActivity, refining, useSegmentMatching>>
segmentView == <<selectedSegmentDetail, selectedSegmentEfforts, loadingSegment, segmentDownloadProgress>>
logVars == <<netLog, progressLog, tokenLog, lastSync, lastSeg>>
callVars == <<transport, authCode>>

vars == <<remoteActivities, remoteEfforts, issued, now, auth, localStorage, db, activities,
          loading, syncProgress, view, selectedActivity, refining, useSegmentMatching,
          selectedSegmentDetail, selectedSegmentEfforts, loadingSegment,
          segmentDownloadProgress, sync, seg, ref, fa, se, opsStarted,
          netLog, progressLog, tokenLog, lastSync, lastSeg, transport, authCode,
          refineLog>>

\* ------------------------------------------------------------ credentials
StartTime == 1000
TickSeconds == 30
\* Seconds a refreshed token lives (a property of the remote).
TokenLifetime == 120

Credentials(cid, secret, access, refresh, expires) ==
    [clientId |-> cid, clientSecret |-> secret, accessToken |-> access,
     refreshToken |-> refresh, expiresAt |-> expires]

Stored(a) == [strava_access_token |-> a.accessToken,
              strava_refresh_token |-> a.refreshToken,
              strava_expires_at |-> a.expiresAt]

\* The n-th token response of POST /oauth/token, issued at time t.
TokenResponse(n, t) ==
    [access_token |-> "a" \o ToString(n), refresh_token |-> "r" \o ToString(n),
     expires_at |-> t + TokenLifetime]
NoTokenResponse == [access_token |-> "", refresh_token |-> "", expires_at |-> 0]

RefreshOutcomes(n, t) == Outcomes({ReturnObject(TokenResponse(n, t))})

updateAuth(a, access, refresh, expires) ==
    [a EXCEPT !.accessToken = access, !.refreshToken = refresh, !.expiresAt = expires]

disconnect(a) == [a EXCEPT !.accessToken = "", !.refreshToken = "", !.expiresAt = 0]

Returned(token, refreshed, resp) ==
    [kind |-> "return", token |-> token, msg |-> "", refreshed |-> refreshed, response |-> resp]
Thrown(m, refreshed) ==
    [kind |-> "throw", token |-> "", msg |-> m, refreshed |-> refreshed, response |-> NoTokenResponse]

\* getValidToken refreshing from the first second of the margin on.
getValidTokenAtMargin(c, t, out) ==
    IF c.expiresAt # 0 /\ t >= c.expiresAt - ExpiryMargin
    THEN IF c.refreshToken = "" \/ c.clientId = "" \/ c.clientSecret = ""
         THEN (IF c.accessToken # "" THEN Returned(c.accessToken, FALSE, NoTokenResponse)
               ELSE Thrown("Cannot refresh token. Missing credentials.", FALSE))
         ELSE (IF out.kind = "throw" THEN Thrown("Token refresh failed. Please reconnect.", TRUE)
               ELSE Returned(out.items[1].access_token, TRUE, out.items[1]))
    ELSE Returned(c.accessToken, FALSE, NoTokenResponse)

\* getValidToken without the fallback to the stored token: inside the margin
\* it fails whenever it cannot refresh.
getValidTokenNoFallback(c, t, out) ==
    IF c.expiresAt # 0 /\ t > c.expiresAt - ExpiryMargin
    THEN IF c.refreshToken = "" \/ c.clientId = "" \/ c.clientSecret = ""
         THEN Thrown("Cannot refresh token. Missing credentials.", FALSE)
         ELSE (IF out.kind = "throw" THEN Thrown("Token refresh failed. Please reconnect.", TRUE)
               ELSE Returned(out.items[1].access_token, TRUE, out.items[1]))
    ELSE Returned(c.accessToken, FALSE, NoTokenResponse)

\* getValidToken as the closure of a render whose state was c, called at
\* time t; out is the outcome of refreshStravaToken should it be called.
\* refreshed tells whether the refresh request was issued, response what
\* updateAuth was called with.
getValidToken(c, t, out) ==
    IF c.expiresAt # 0 /\ t > c.expiresAt - ExpiryMargin
    THEN IF c.refreshToken = "" \/ c.clientId = "" \/ c.clientSecret = ""
         THEN (IF c.accessToken # "" THEN Returned(c.accessToken, FALSE, NoTokenResponse)
               ELSE Thrown("Cannot refresh token. Missing credentials.", FALSE))
         ELSE (IF out.kind = "throw" THEN Thrown("Token refresh failed. Please reconnect.", TRUE)
               ELSE Returned(out.items[1].access_token, TRUE, out.items[1]))
    ELSE Returned(c.accessToken, FALSE, NoTokenResponse)

\* AuthAfter with a failed refresh taken for a revoked grant: the tokens are
\* dropped.
AuthAfterDroppingOnFailure(a, r) ==
    IF r.kind = "return" /\ r.refreshed
    THEN updateAuth(a, r.response.access_token, r.response.refresh_token, r.response.expires_at)
    ELSE IF r.refreshed THEN disconnect(a) ELSE a

\* The credential state after a getValidToken call that gave r.
AuthAfter(a, r) ==
    IF r.kind = "return" /\ r.refreshed
    THEN updateAuth(a, r.response.access_token, r.response.refresh_token, r.response.expires_at)
    ELSE a

TokenCall(op, c, r) ==
    [op |-> op, at |-> now, cap |-> c, stored |-> auth, refreshed |-> r.refreshed,
     kind |-> r.kind, token |-> r.token, msg |-> r.msg]

RefreshRequest(c) ==
    [ev |-> "request", fn |-> "refresh", page |-> 0, per_page |-> 0, token |-> c.refreshToken]

\* ------------------------------------------------------------ the database
\* A put that merges fields: a record written without segment efforts keeps
\* the segment efforts of the record it replaces.
saveActivitiesMergingFields(table, items) ==
    LET ids == {items[i].id : i \in 1..Len(items)}
        Last(id) == CHOOSE i \in 1..Len(items) :
                        items[i].id = id /\ \A j \in (i + 1)..Len(items) : items[j].id # id
        Merged(new) ==
            IF \E r \in table : r.id = new.id /\ r.has_efforts /\ ~new.has_efforts
            THEN LET kept == CHOOSE r \in table : r.id = new.id /\ r.has_efforts
                 IN [new EXCEPT !.has_efforts = TRUE, !.segment_efforts = kept.segment_efforts]
            ELSE new
    IN {r \in table : r.id \notin ids} \cup {Merged(items[Last(id)]) : id \in ids}

saveActivities(table, items) ==
    LET ids == {items[i].id : i \in 1..Len(items)}
        Last(id) == CHOOSE i \in 1..Len(items) :
                        items[i].id = id /\ \A j \in (i + 1)..Len(items) : items[j].id # id
    IN {r \in table : r.id \notin ids} \cup {items[Last(id)] : id \in ids}

clearDatabase(table) == {}

\* orderBy('start_date').reverse(): newest first, ties by descending key.
getAllActivities(table) ==
    IF table = {} THEN <<>>
    ELSE CHOOSE s \in [1..Cardinality(table) -> table] :
            /\ Range(s) = table
            /\ \A i \in 1..(Len(s) - 1) :
                  \/ s[i].start_date > s[i + 1].start_date
                  \/ s[i].start_date = s[i + 1].start_date /\ s[i].id > s[i + 1].id

\* Array.prototype.sort with (a, b) => date(a) - date(b): stable, ascending.
RECURSIVE SortByStartDate(_)
Insert(x, s) ==
    LET k == Cardinality({i \in 1..Len(s) : s[i].start_date <= x.start_date})
    IN SubSeq(s, 1, k) \o <<x>> \o SubSeq(s, k + 1, Len(s))
SortByStartDate(s) ==
    IF s = <<>> THEN <<>>
    ELSE Insert(s[Len(s)], SortByStartDate(SubSeq(s, 1, Len(s) - 1)))

\* ------------------------------------------------------ paginated fetchers
NoCall == [pc |-> "idle", token |-> "", page |-> 1, hasMore |-> TRUE, all |-> <<>>, err |-> ""]
\* The locals of a call that has just entered its loop.
NewCall(token) == [NoCall EXCEPT !.pc = "loop", !.token = token]

Request(fn, page, token) ==
    [ev |-> "request", fn |-> fn, page |-> page, per_page |-> perPage, token |-> token]
\* A request for the one object with this id.
Get(fn, id, token) == [ev |-> "request", fn |-> fn, page |-> id, per_page |-> 0, token |-> token]
Delay(fn) == [ev |-> "delay", fn |-> fn, page |-> 0, per_page |-> 0, token |-> ""]

\* One iteration of the while loop of fetchSegmentEfforts, given the
\* outcome of its request.
fetchSegmentEffortsIteration(st, out) ==
    IF out.kind = "throw" THEN [st EXCEPT !.pc = "thrown", !.err = out.msg]
    ELSE LET s1 == IF out.kind = "list"
                   THEN (IF Len(out.items) = 0
                         THEN [st EXCEPT !.hasMore = FALSE]
                         ELSE [st EXCEPT !.all = @ \o out.items, !.page = @ + 1])
                   ELSE [st EXCEPT !.hasMore = FALSE]
             s2 == IF s1.page > MaxEffortPages THEN [s1 EXCEPT !.hasMore = FALSE] ELSE s1
         IN IF s2.hasMore THEN s2 ELSE [s2 EXCEPT !.pc = "returned"]

\* fetchAllActivities ending on a page shorter than per_page (the heuristic
\* the comment in fetchSegmentEfforts warns against).
fetchAllActivitiesShortPageEnds(st, out) ==
    IF out.kind = "throw" THEN [st EXCEPT !.pc = "thrown", !.err = out.msg]
    ELSE IF out.kind # "list"
         THEN [st EXCEPT !.pc = "thrown", !.err = "Invalid API response format."]
    ELSE IF Len(out.items) < perPage
         THEN [st EXCEPT !.all = @ \o out.items, !.hasMore = FALSE, !.pc = "returned"]
    ELSE [st EXCEPT !.all = @ \o out.items, !.page = @ + 1]

\* fetchAllActivities without its safety break.
fetchAllActivitiesNoBreak(st, out) ==
    IF out.kind = "throw" THEN [st EXCEPT !.pc = "thrown", !.err = out.msg]
    ELSE IF out.kind # "list"
         THEN [st EXCEPT !.pc = "thrown", !.err = "Invalid API response format."]
    ELSE IF Len(out.items) = 0 THEN [st EXCEPT !.hasMore = FALSE, !.pc = "returned"]
    ELSE [st EXCEPT !.all = @ \o out.items, !.page = @ + 1]

\* One iteration of the while loop of fetchAllActivities.
fetchAllActivitiesIteration(st, out) ==
    IF out.kind = "throw" THEN [st EXCEPT !.pc = "thrown", !.err = out.msg]
    ELSE IF out.kind # "list"
         THEN [st EXCEPT !.pc = "thrown", !.err = "Invalid API response format."]
    ELSE IF Len(out.items) = 0 THEN [st EXCEPT !.hasMore = FALSE, !.pc = "returned"]
    ELSE LET s1 == [st EXCEPT !.all = @ \o out.items, !.page = @ + 1]
         IN IF s1.page > MaxActivityPages THEN [s1 EXCEPT !.pc = "returned"] ELSE s1

\* The callback fired after every page that settled, whatever it held.
ProgressedEveryPage(fn, old, new) == <<[fn |-> fn, count |-> Len(new.all)]>>

\* The callback fires when the accumulator grew.
Progressed(fn, old, new) ==
    IF Len(new.all) > Len(old.all) THEN <<[fn |-> fn, count |-> Len(new.all)]>> ELSE <<>>

\* A page of fetchAllActivities arrives; the callback is handleSync's
\* (count) => setSyncProgress(count).
FetchAllActivitiesPage ==
    /\ fa.pc = "loop"
    /\ LET out == PageOutcome(remoteActivities, fa.page)
           new == fetchAllActivitiesIteration(fa, out)
       IN /\ fa' = new
          /\ netLog' = Append(netLog, Request("activities", fa.page, fa.token))
          /\ progressLog' = progressLog \o Progressed("activities", fa, new)
          /\ syncProgress' = IF Len(new.all) > Len(fa.all) THEN Len(new.all) ELSE syncProgress
    /\ UNCHANGED <<refineLog, callVars, remoteVars, issued, now, authVars, db, activities, loading, view,
                   activityView, segmentView, sync, seg, ref, se, opsStarted,
                   tokenLog, lastSync, lastSeg>>

\* The delay elapses and a page of fetchSegmentEfforts arrives; the callback
\* is handleSegmentClick's (count) => setSegmentDownloadProgress(count).
FetchSegmentEffortsPage ==
    /\ se.pc = "loop"
    /\ LET out == PageOutcome(remoteEfforts, se.page)
           new == fetchSegmentEffortsIteration(se, out)
       IN /\ se' = new
          /\ netLog' = netLog \o <<Delay("efforts"), Request("efforts", se.page, se.token)>>
          /\ progressLog' = progressLog \o Progressed("efforts", se, new)
          /\ segmentDownloadProgress' =
                 IF Len(new.all) > Len(se.all) THEN Len(new.all) ELSE segmentDownloadProgress
    /\ UNCHANGED <<refineLog, callVars, remoteVars, issued, now, authVars, db, activities, syncView,
                   activityView, selectedSegmentDetail, selectedSegmentEfforts,
                   loadingSegment, sync, seg, ref, fa, opsStarted,
                   tokenLog, lastSync, lastSeg>>

\* ------------------------------------------------------------- the clock
Tick ==
    /\ now < StartTime + MaxTicks * TickSeconds
    /\ now' = now + TickSeconds
    /\ UNCHANGED <<refineLog, callVars, remoteVars, issued, authVars, db, activities, syncView, activityView,
                   segmentView, sync, seg, ref, fa, se, opsStarted, logVars>>

\* ------------------------------------- fetchWithProxyFallback, by attempt
\* The message of the error the direct attempt raises: fetch() rejecting,
\* the 401 branch, or the "Direct API Error" of any other status.
DirectError(direct) ==
    IF direct.status = 0 THEN "Failed to fetch"
    ELSE IF direct.status = 401
         THEN (IF direct.message # "" THEN direct.message
               ELSE "Unauthorized: Check credentials.")
         ELSE "Direct API Error: 500"

\* fetch(url, options) with the Authorization header of options, and the
\* status it came back with.
Attempt(via, token, status) == [via |-> via, token |-> token, status |-> status]

NoTransport == [pc |-> "idle", token |-> "", direct |-> Http(0, "", ReturnNotList),
                proxy |-> Http(0, "", ReturnNotList), attempts |-> <<>>,
                result |-> Throw("")]

\* A call about to make its direct attempt, with the exchanges the network
\* will give to the direct and to the proxied request.
NewTransport(token, direct, proxy) ==
    [NoTransport EXCEPT !.pc = "direct", !.token = token, !.direct = direct, !.proxy = proxy]

\* Attempt 1 settles: the call returns the body, rethrows from its catch,
\* or goes on to the proxy.
FetchDirect ==
    /\ transport.pc = "direct"
    /\ LET d == transport.direct
           ends == d.status = 200 \/ IncludesUnauthorizedOr401(DirectError(d))
       IN transport' =
              [transport EXCEPT
                  !.attempts = Append(@, Attempt("direct", transport.token, d.status)),
                  !.pc = IF ends THEN "done" ELSE "proxy",
                  !.result = IF ends THEN fetchWithProxyFallback(d, transport.proxy) ELSE @]
    /\ UNCHANGED <<refineLog, authCode, remoteVars, issued, now, authVars, db, activities, syncView,
                   activityView, segmentView, sync, seg, ref, fa, se, opsStarted, logVars>>

\* Attempt 2 settles: fetch(proxyUrl, options), the same options.
FetchViaProxy ==
    /\ transport.pc = "proxy"
    /\ transport' =
           [transport EXCEPT
               !.attempts = Append(@, Attempt("proxy", transport.token, transport.proxy.status)),
               !.pc = "done",
               !.result = fetchWithProxyFallback(transport.direct, transport.proxy)]
    /\ UNCHANGED <<refineLog, authCode, remoteVars, issued, now, authVars, db, activities, syncView,
                   activityView, segmentView, sync, seg, ref, fa, se, opsStarted, logVars>>

\* localStorage.setItem and removeItem of the three token keys.
storeAuth(ls, access, refresh, expires) ==
    [ls EXCEPT !.strava_access_token = access, !.strava_refresh_token = refresh,
               !.strava_expires_at = expires]
removeAuth(ls) ==
    [ls EXCEPT !.strava_access_token = "", !.strava_refresh_token = "", !.strava_expires_at = 0]

\* ---------------------------------------------------------- handleAuthCode
\* popup: the window connectToStrava opened is being polled; awaiting: the
\* handleAuthCode calls whose authenticateWithCode has not settled.
\* url: the URL of the page holds a code that init() has not handled.
NoAuthCode == [url |-> FALSE, popup |-> FALSE, awaiting |-> 0]

\* POST /oauth/token with the code; it carries no bearer token.
ExchangeRequest == [ev |-> "request", fn |-> "exchange", page |-> 0, per_page |-> 0, token |-> ""]

\* handleAuthCode up to its await: setLoading(true) and the request.
handleAuthCodeStarts(ac) ==
    /\ loading' = TRUE
    /\ authCode' = [ac EXCEPT !.awaiting = @ + 1]
    /\ netLog' = Append(netLog, ExchangeRequest)

\* init() after it loaded the activities, the URL holding a code: with the
\* stored client id and secret it calls handleAuthCode, else it alerts.
InitAuthCode ==
    /\ authCode.url
    /\ view' = "SETTINGS"
    /\ IF auth.clientId # "" /\ auth.clientSecret # ""
       THEN handleAuthCodeStarts([authCode EXCEPT !.url = FALSE])
       ELSE /\ authCode' = [authCode EXCEPT !.url = FALSE]
            /\ UNCHANGED <<loading, netLog>>
    /\ UNCHANGED <<refineLog, transport, remoteVars, issued, now, authVars, db, activities,
                   syncProgress, activityView, segmentView, sync, seg, ref, fa, se,
                   opsStarted, progressLog, tokenLog, lastSync, lastSeg>>

\* The "Connect with Strava" button, shown while there is no access token,
\* in an iframe: the popup opens and the polling timer starts.  (Outside an
\* iframe the page is left for Strava's and the App is constructed anew.)
ConnectToStrava ==
    /\ auth.accessToken = ""
    /\ auth.clientId # ""
    /\ auth.clientSecret # ""
    /\ ~authCode.popup
    /\ opsStarted < MaxOps
    /\ opsStarted' = opsStarted + 1
    /\ authCode' = [authCode EXCEPT !.popup = TRUE]
    /\ UNCHANGED <<refineLog, transport, remoteVars, issued, now, authVars, db, activities, syncView,
                   activityView, segmentView, sync, seg, ref, fa, se, logVars>>

\* A tick of the polling timer that finds the popup closed, or finds the
\* code in its URL and calls handleAuthCode; the timer is cleared.
PopupPoll ==
    /\ authCode.popup
    /\ \/ /\ authCode' = [authCode EXCEPT !.popup = FALSE]
          /\ UNCHANGED <<loading, netLog>>
       \/ handleAuthCodeStarts([authCode EXCEPT !.popup = FALSE])
    /\ UNCHANGED <<refineLog, transport, remoteVars, issued, now, authVars, db, activities,
                   syncProgress, view, activityView, segmentView, sync, seg, ref, fa, se,
                   opsStarted, progressLog, tokenLog, lastSync, lastSeg>>

\* The "Exchange" button of the manual code entry, disabled={loading || !manualCode}.
ExchangeManualCode ==
    /\ ~loading
    /\ opsStarted < MaxOps
    /\ opsStarted' = opsStarted + 1
    /\ handleAuthCodeStarts(authCode)
    /\ UNCHANGED <<refineLog, transport, remoteVars, issued, now, authVars, db, activities,
                   syncProgress, view, activityView, segmentView, sync, seg, ref, fa, se,
                   progressLog, tokenLog, lastSync, lastSeg>>

\* authenticateWithCode settles in one handleAuthCode call: updateAuth with
\* the response, or the alert of the catch; then the finally.
HandleAuthCodeSettles ==
    /\ authCode.awaiting > 0
    /\ authCode' = [authCode EXCEPT !.awaiting = @ - 1]
    /\ loading' = FALSE
    /\ \E out \in RefreshOutcomes(issued + 1, now) :
         IF out.kind = "throw"
         THEN UNCHANGED <<issued, authVars>>
         ELSE LET response == out.items[1]
              IN /\ issued' = issued + 1
                 /\ auth' = updateAuth(auth, response.access_token, response.refresh_token,
                                       response.expires_at)
                 /\ localStorage' = storeAuth(localStorage, response.access_token,
                                              response.refresh_token, response.expires_at)
    /\ UNCHANGED <<refineLog, transport, remoteVars, now, db, activities, syncProgress, view,
                   activityView, segmentView, sync, seg, ref, fa, se, opsStarted, logVars>>

\* -------------------------------------------------------------- handleSync

\* localStorage after a getValidToken call that gave r.
StorageAfter(ls, r) ==
    IF r.kind = "return" /\ r.refreshed
    THEN storeAuth(ls, r.response.access_token, r.response.refresh_token, r.response.expires_at)
    ELSE ls

NoSync == [pc |-> "idle", cap |-> Credentials("", "", "", "", 0), token |-> "", dbBefore |-> {}]
NeverSynced == [outcome |-> "none", step |-> "", msg |-> "", path |-> "", dbBefore |-> {},
                dbAfter |-> {}, requests |-> 0]

\* The catch block of handleSync: "offer" is confirm("... Reset connection?"),
\* "alert" is alert("Sync Failed: " + e.message).
handleSyncCatch(msg) ==
    IF msg # "" /\ IncludesUnauthorizedOr401(msg) THEN "offer" ELSE "alert"

\* SyncFails without the reset of the progress counter.
SyncFailsKeepingProgress(step, msg, accepted, a, ls) ==
    LET reset == handleSyncCatch(msg) = "offer" /\ accepted
    IN /\ auth' = IF reset THEN disconnect(a) ELSE a
       /\ localStorage' = IF reset THEN removeAuth(ls) ELSE ls
       /\ view' = "SETTINGS"
       /\ loading' = FALSE
       /\ syncProgress' = syncProgress
       /\ lastSync' = [outcome |-> "failed", step |-> step, msg |-> msg,
                       path |-> handleSyncCatch(msg),
                       dbBefore |-> IF sync.pc = "idle" THEN db ELSE sync.dbBefore,
                       dbAfter |-> db', requests |-> Len(netLog')]
       /\ sync' = NoSync

\* catch and finally of handleSync, for the error msg thrown at step, from
\* credentials a and storage ls; accepted is the user's answer to confirm().
SyncFails(step, msg, accepted, a, ls) ==
    LET reset == handleSyncCatch(msg) = "offer" /\ accepted
    IN /\ auth' = IF reset THEN disconnect(a) ELSE a
       /\ localStorage' = IF reset THEN removeAuth(ls) ELSE ls
       /\ view' = "SETTINGS"
       /\ loading' = FALSE
       /\ syncProgress' = 0
       /\ lastSync' = [outcome |-> "failed", step |-> step, msg |-> msg,
                       path |-> handleSyncCatch(msg),
                       dbBefore |-> IF sync.pc = "idle" THEN db ELSE sync.dbBefore,
                       dbAfter |-> db', requests |-> Len(netLog')]
       /\ sync' = NoSync

\* The Sync button: handleSync up to its first await that suspends.
HandleSync ==
    /\ sync.pc = "idle"
    /\ ~loading
    /\ opsStarted < MaxOps
    /\ opsStarted' = opsStarted + 1
    /\ UNCHANGED <<refineLog, callVars, remoteVars, now, db, activities, activityView, segmentView, seg, ref,
                   fa, se, progressLog, lastSeg>>
    /\ \E out \in RefreshOutcomes(issued + 1, now), accepted \in BOOLEAN :
         LET calls == auth.refreshToken # "" /\ auth.clientId # ""
             r == IF calls THEN getValidToken(auth, now, out)
                  ELSE Returned(auth.accessToken, FALSE, NoTokenResponse)
             err == IF r.kind = "throw" THEN r.msg
                    ELSE IF r.token = "" THEN "Please connect to Strava first." ELSE ""
         IN /\ tokenLog' = IF calls THEN Append(tokenLog, TokenCall("handleSync", auth, r))
                           ELSE tokenLog
            /\ netLog' = IF r.refreshed THEN Append(netLog, RefreshRequest(auth)) ELSE netLog
            /\ issued' = IF r.kind = "return" /\ r.refreshed THEN issued + 1 ELSE issued
            /\ IF err # ""
               THEN SyncFails(IF r.kind = "throw" THEN "token" ELSE "connect", err, accepted,
                              AuthAfter(auth, r), StorageAfter(localStorage, r))
               ELSE /\ auth' = AuthAfter(auth, r)
                    /\ localStorage' = StorageAfter(localStorage, r)
                    /\ loading' = TRUE
                    /\ sync' = [pc |-> "clear", cap |-> auth, token |-> r.token, dbBefore |-> db]
                    /\ UNCHANGED <<view, syncProgress, lastSync>>

\* await clearDatabase() resolves; fetchAllActivities is called and requests page 1.
HandleSyncClear ==
    /\ sync.pc = "clear"
    /\ db' = clearDatabase(db)
    /\ fa' = NewCall(sync.token)
    /\ sync' = [sync EXCEPT !.pc = "fetch"]
    /\ UNCHANGED <<refineLog, callVars, remoteVars, issued, now, authVars, activities, syncView, activityView,
                   segmentView, seg, ref, se, opsStarted, logVars>>

\* fetchAllActivities returned; await saveActivities(newActivities) settles.
\* A rejected bulkPut may have written any prefix of the list.
HandleSyncSave ==
    /\ sync.pc = "fetch"
    /\ fa.pc = "returned"
    /\ fa' = NoCall
    /\ UNCHANGED <<refineLog, callVars, remoteVars, issued, now, activityView, segmentView, seg, ref, se,
                   opsStarted, netLog, progressLog, tokenLog, lastSeg>>
    /\ \E saved \in BOOLEAN, k \in 0..Len(fa.all), accepted \in BOOLEAN :
         IF saved
         THEN /\ db' = saveActivities(db, fa.all)
              /\ activities' = fa.all
              /\ loading' = FALSE
              /\ syncProgress' = 0
              /\ lastSync' = [outcome |-> "ok", step |-> "", msg |-> "", path |-> "",
                              dbBefore |-> sync.dbBefore, dbAfter |-> db',
                              requests |-> Len(netLog)]
              /\ sync' = NoSync
              /\ UNCHANGED <<authVars, view>>
         ELSE /\ db' = saveActivities(db, SubSeq(fa.all, 1, k))
              /\ SyncFails("save", "BulkError", accepted, auth, localStorage)
              /\ UNCHANGED activities

\* fetchAllActivities threw.
HandleSyncFetchFailed ==
    /\ sync.pc = "fetch"
    /\ fa.pc = "thrown"
    /\ fa' = NoCall
    /\ UNCHANGED <<refineLog, callVars, remoteVars, issued, now, db, activities, activityView, segmentView,
                   seg, ref, se, opsStarted, netLog, progressLog, tokenLog, lastSeg>>
    /\ \E accepted \in BOOLEAN : SyncFails("fetch", fa.err, accepted, auth, localStorage)

\* ------------------------------------------------------ handleSegmentClick
NoSeg == [pc |-> "idle", cap |-> Credentials("", "", "", "", 0), acts |-> <<>>, token |-> "",
          segmentId |-> 0, localEfforts |-> <<>>]
NoSegmentRun == [outcome |-> "none", msg |-> "", local |-> <<>>, remote |-> <<>>,
                 remoteThrew |-> FALSE]

\* The first index at which seq holds an effort on segment sid, 0 if none
\* (Array.prototype.find).
FindOnSegment(efforts, sid) ==
    IF \E i \in 1..Len(efforts) : efforts[i].segment = sid
    THEN CHOOSE i \in 1..Len(efforts) :
            efforts[i].segment = sid /\ \A j \in 1..(i - 1) : efforts[j].segment # sid
    ELSE 0

\* Step 2: the local efforts on segment sid, in the order of the activities.
RECURSIVE gatherLocalEfforts(_, _)
gatherLocalEfforts(acts, sid) ==
    IF acts = <<>> THEN <<>>
    ELSE LET act == Head(acts)
             k == IF act.has_efforts THEN FindOnSegment(act.segment_efforts, sid) ELSE 0
             match == act.segment_efforts[k]
             fullEffort == [match EXCEPT !.start_date =
                               IF match.start_date # 0 THEN match.start_date ELSE act.start_date]
         IN (IF k # 0 /\ fullEffort.start_date # 0 THEN <<fullEffort>> ELSE <<>>)
            \o gatherLocalEfforts(Tail(acts), sid)

Ids(efforts) == {efforts[i].id : i \in 1..Len(efforts)}

\* Step 3 using what fetchSegmentEfforts had accumulated when it threw.
remoteEffortsKeepPartial(call) == call.all

\* Step 3: the remote efforts, none when fetchSegmentEfforts threw.
remoteEffortsOrNone(call) == IF call.pc = "returned" THEN call.all ELSE <<>>

\* Step 4 with the remote record replacing the local one of the same id.
RECURSIVE mergeRemoteWins(_, _)
mergeRemoteWins(merged, remoteEfforts_) ==
    IF remoteEfforts_ = <<>> THEN merged
    ELSE LET re == Head(remoteEfforts_)
         IN mergeRemoteWins(
                SelectSeq(merged, LAMBDA e : e.id # re.id) \o <<re>>, Tail(remoteEfforts_))

\* Step 4: merged starts as the local efforts, seenIds as their ids; a remote
\* effort is pushed unless its id was seen.
RECURSIVE mergeEfforts(_, _)
mergeEfforts(merged, remoteEfforts_) ==
    IF remoteEfforts_ = <<>> THEN merged
    ELSE LET re == Head(remoteEfforts_)
         IN mergeEfforts(IF re.id \notin Ids(merged) THEN Append(merged, re) ELSE merged,
                         Tail(remoteEfforts_))

SegmentOutcomes(sid) ==
    Outcomes({ReturnObject(Segment(sid)), ReturnObject([Segment(sid) EXCEPT !.name = ""])})

\* catch and finally of handleSegmentClick.
SegmentFails(msg) ==
    /\ selectedSegmentDetail' = NoSegment
    /\ loadingSegment' = FALSE
    /\ lastSeg' = [NoSegmentRun EXCEPT !.outcome = "failed", !.msg = msg]
    /\ seg' = NoSeg

\* A click on a segment row: handleSegmentClick up to its first await that
\* suspends (the request for the segment's detail).
HandleSegmentClick ==
    /\ seg.pc = "idle"
    /\ opsStarted < MaxOps
    /\ opsStarted' = opsStarted + 1
    /\ UNCHANGED <<refineLog, callVars, remoteVars, now, db, activities, syncView, activityView,
                   selectedSegmentEfforts, sync, ref, fa, se, progressLog, lastSync>>
    /\ IF auth.accessToken = ""
       THEN /\ lastSeg' = [NoSegmentRun EXCEPT !.outcome = "notconnected"]
            /\ UNCHANGED <<issued, authVars, selectedSegmentDetail, loadingSegment,
                           segmentDownloadProgress, seg, netLog, tokenLog>>
       ELSE \E out \in RefreshOutcomes(issued + 1, now) :
              LET r == getValidToken(auth, now, out)
              IN /\ tokenLog' = Append(tokenLog, TokenCall("handleSegmentClick", auth, r))
                 /\ netLog' = IF r.refreshed THEN Append(netLog, RefreshRequest(auth)) ELSE netLog
                 /\ issued' = IF r.kind = "return" /\ r.refreshed THEN issued + 1 ELSE issued
                 /\ auth' = AuthAfter(auth, r)
                 /\ localStorage' = StorageAfter(localStorage, r)
                 /\ segmentDownloadProgress' = 0
                 /\ IF r.kind = "throw"
                    THEN SegmentFails(r.msg)
                    ELSE /\ loadingSegment' = TRUE
                         /\ seg' = [NoSeg EXCEPT !.pc = "detail", !.cap = auth,
                                                 !.acts = activities, !.token = r.token,
                                                 !.segmentId = SegmentId]
                         /\ UNCHANGED <<selectedSegmentDetail, lastSeg>>

\* fetchSegmentDetails settles; on success steps 1 and 2 run and
\* fetchSegmentEfforts is called.
HandleSegmentClickDetail ==
    /\ seg.pc = "detail"
    /\ netLog' = Append(netLog, Get("segment", seg.segmentId, seg.token))
    /\ UNCHANGED <<refineLog, callVars, remoteVars, issued, now, authVars, db, activities, syncView, activityView,
                   selectedSegmentEfforts, segmentDownloadProgress, sync, ref, fa,
                   opsStarted, progressLog, tokenLog, lastSync>>
    /\ \E out \in SegmentOutcomes(seg.segmentId) :
         IF out.kind = "throw"
         THEN SegmentFails(out.msg) /\ UNCHANGED se
         ELSE IF out.items[1].name = ""
         THEN SegmentFails("Invalid segment data returned from Strava.") /\ UNCHANGED se
         ELSE /\ selectedSegmentDetail' = out.items[1]
              /\ seg' = [seg EXCEPT !.pc = "efforts",
                                    !.localEfforts = gatherLocalEfforts(seg.acts, seg.segmentId)]
              /\ se' = NewCall(seg.token)
              /\ UNCHANGED <<loadingSegment, lastSeg>>

\* fetchSegmentEfforts settled: steps 3 (its result or its catch), 4 and the
\* sorted setSelectedSegmentEfforts, then finally.
HandleSegmentClickMerge ==
    /\ seg.pc = "efforts"
    /\ se.pc \in {"returned", "thrown"}
    /\ LET remote == remoteEffortsOrNone(se)
           merged == mergeEfforts(seg.localEfforts, remote)
       IN /\ selectedSegmentEfforts' = SortByStartDate(merged)
          /\ lastSeg' = [outcome |-> "ok", msg |-> "", local |-> seg.localEfforts,
                         remote |-> remote, remoteThrew |-> se.pc = "thrown"]
    /\ loadingSegment' = FALSE
    /\ seg' = NoSeg
    /\ se' = NoCall
    /\ UNCHANGED <<refineLog, callVars, remoteVars, issued, now, authVars, db, activities, syncView, activityView,
                   selectedSegmentDetail, segmentDownloadProgress, sync, ref, fa,
                   opsStarted, netLog, progressLog, tokenLog, lastSync>>

\* ------------------------------------------------------ similarActivities
Abs(x) == IF x < 0 THEN -x ELSE x
Max(x, y) == IF x > y THEN x ELSE y
Min(x, y) == IF x < y THEN x ELSE y

\* getDistanceFromLatLonInKm, in metres, on start points that lie 400 m
\* apart along a line.
DistanceFromStart(p, q) == 400 * Abs(p - q)

\* The filter of basicMatches without the 20 m floor of the elevation tolerance.
BaseMatchNoFloor(selected, act) ==
    /\ act.type = selected.type
    /\ ~(20 * Abs(act.distance - selected.distance) > selected.distance)
    /\ ~(10 * Abs(act.total_elevation_gain - selected.total_elevation_gain)
            > selected.total_elevation_gain)
    /\ selected.has_latlng =>
          /\ act.has_latlng
          /\ ~(DistanceFromStart(selected.start_latlng, act.start_latlng) > 500)

\* The filter of basicMatches; the tolerances 0.05 and 0.1 in integers.
BaseMatch(selected, act) ==
    /\ act.type = selected.type
    /\ ~(20 * Abs(act.distance - selected.distance) > selected.distance)
    /\ ~(10 * Abs(act.total_elevation_gain - selected.total_elevation_gain)
            > Max(200, selected.total_elevation_gain))
    /\ selected.has_latlng =>
          /\ act.has_latlng
          /\ ~(DistanceFromStart(selected.start_latlng, act.start_latlng) > 500)

SharesSegment(selected, act) ==
    /\ act.has_efforts
    /\ \E i \in 1..Len(act.segment_efforts), j \in 1..Len(selected.segment_efforts) :
          act.segment_efforts[i].segment = selected.segment_efforts[j].segment

\* similarActivities leaving the selected activity out of its own comparison.
similarActivitiesOthersOnly(selected, acts, segmentMatching) ==
    IF selected = NoActivity \/ acts = <<>> THEN <<>>
    ELSE LET basicMatches ==
                 SortByStartDate(SelectSeq(acts, LAMBDA a : a.id # selected.id
                                                            /\ BaseMatch(selected, a)))
         IN IF segmentMatching /\ selected.has_efforts /\ Len(selected.segment_efforts) > 0
            THEN SelectSeq(basicMatches, LAMBDA a : SharesSegment(selected, a))
            ELSE basicMatches

\* similarActivities without the sort of basicMatches.
similarActivitiesUnsorted(selected, acts, segmentMatching) ==
    IF selected = NoActivity \/ acts = <<>> THEN <<>>
    ELSE LET basicMatches == SelectSeq(acts, LAMBDA a : BaseMatch(selected, a))
         IN IF segmentMatching /\ selected.has_efforts /\ Len(selected.segment_efforts) > 0
            THEN SelectSeq(basicMatches, LAMBDA a : SharesSegment(selected, a))
            ELSE basicMatches

similarActivities(selected, acts, segmentMatching) ==
    IF selected = NoActivity \/ acts = <<>> THEN <<>>
    ELSE LET basicMatches == SortByStartDate(SelectSeq(acts, LAMBDA a : BaseMatch(selected, a)))
         IN IF segmentMatching /\ selected.has_efforts /\ Len(selected.segment_efforts) > 0
            THEN SelectSeq(basicMatches, LAMBDA a : SharesSegment(selected, a))
            ELSE basicMatches

\* ----------------------------------------------------------- refineMatches
NoRefine == [pc |-> "idle", cap |-> Credentials("", "", "", "", 0), selected |-> NoActivity,
             similar |-> <<>>, detailedSelected |-> NoActivity, token |-> "",
             toFetch |-> <<>>, newDetails |-> <<>>]

\* GET /activities/{id}: the activity with its segment efforts.
DetailOutcomes(id) ==
    Outcomes({ReturnObject(Activity(id, 3 - id, efforts)) :
                 efforts \in {<<>>, <<Effort(id, SegmentId, 0, 50)>>}})

\* prev.map(a => a.id === d.id ? d : a)
ReplaceById(prev, d) == [i \in 1..Len(prev) |-> IF prev[i].id = d.id THEN d ELSE prev[i]]

\* Array.from(new Map(prev.map(p => [p.id, p])).values()): one entry per id,
\* at the place of the id's first record, holding its last.
RECURSIVE MapValues(_, _)
MapValues(entries, items) ==
    IF items = <<>> THEN entries
    ELSE LET d == Head(items)
         IN MapValues(IF \E i \in 1..Len(entries) : entries[i].id = d.id
                      THEN ReplaceById(entries, d) ELSE Append(entries, d),
                      Tail(items))

\* finally of refineMatches (its catch only alerts).
RefineEnds(outcome) ==
    /\ refining' = FALSE
    /\ ref' = NoRefine
    /\ refineLog' = Append(refineLog, outcome)

\* RefineCandidates taking every base match as a candidate (no slice).
RefineCandidatesAll(c, similar, det, idChanged, out) ==
    LET toFetch == SelectSeq(similar, LAMBDA a : ~a.has_efforts)
        none == ~det.has_efforts \/ Len(det.segment_efforts) = 0
        calls == ~none /\ toFetch # <<>>
        r == getValidToken(c, now, out)
    IN /\ tokenLog' = IF calls THEN Append(tokenLog, TokenCall("refineMatches", c, r))
                      ELSE tokenLog
       /\ issued' = IF calls /\ r.kind = "return" /\ r.refreshed THEN issued + 1 ELSE issued
       /\ auth' = IF calls THEN AuthAfter(auth, r) ELSE auth
       /\ localStorage' = IF calls THEN StorageAfter(localStorage, r) ELSE localStorage
       /\ IF calls /\ r.kind = "return"
          THEN /\ ref' = [NoRefine EXCEPT !.pc = "candidates", !.cap = c, !.similar = similar,
                                          !.selected = det, !.detailedSelected = det,
                                          !.token = r.token, !.toFetch = toFetch]
               /\ refining' = IF ref.pc = "idle" THEN TRUE ELSE refining
               /\ useSegmentMatching' = IF idChanged THEN FALSE ELSE useSegmentMatching
               /\ UNCHANGED refineLog
          ELSE /\ RefineEnds(IF calls THEN "failed" ELSE IF none THEN "noSegments" ELSE "ok")
               /\ useSegmentMatching' = IF idChanged THEN FALSE
                                        ELSE IF none \/ calls THEN useSegmentMatching
                                        ELSE TRUE

\* Lines 634-670 up to the first await that suspends, for the detailed
\* selected activity det: the candidates come from the similarActivities of
\* the render the handler was created in, the token from its getValidToken.
\* idChanged: the effect on selectedActivity?.id will run after this block.
RefineCandidates(c, similar, det, idChanged, out) ==
    LET candidates == SubSeq(similar, 1, Min(MaxCandidates, Len(similar)))
        toFetch == SelectSeq(candidates, LAMBDA a : ~a.has_efforts)
        none == ~det.has_efforts \/ Len(det.segment_efforts) = 0
        calls == ~none /\ toFetch # <<>>
        r == getValidToken(c, now, out)
    IN /\ tokenLog' = IF calls THEN Append(tokenLog, TokenCall("refineMatches", c, r))
                      ELSE tokenLog
       /\ issued' = IF calls /\ r.kind = "return" /\ r.refreshed THEN issued + 1 ELSE issued
       /\ auth' = IF calls THEN AuthAfter(auth, r) ELSE auth
       /\ localStorage' = IF calls THEN StorageAfter(localStorage, r) ELSE localStorage
       /\ IF calls /\ r.kind = "return"
          THEN /\ ref' = [NoRefine EXCEPT !.pc = "candidates", !.cap = c, !.similar = similar,
                                          !.selected = det, !.detailedSelected = det,
                                          !.token = r.token, !.toFetch = toFetch]
               /\ refining' = IF ref.pc = "idle" THEN TRUE ELSE refining
               /\ useSegmentMatching' = IF idChanged THEN FALSE ELSE useSegmentMatching
               /\ UNCHANGED refineLog
          ELSE /\ RefineEnds(IF calls THEN "failed" ELSE IF none THEN "noSegments" ELSE "ok")
               /\ useSegmentMatching' = IF idChanged THEN FALSE
                                        ELSE IF none \/ calls THEN useSegmentMatching
                                        ELSE TRUE

\* The refresh request of the call RefineCandidates makes, if it makes one.
RefineCandidatesRequest(c, similar, det, out) ==
    LET candidates == SubSeq(similar, 1, Min(MaxCandidates, Len(similar)))
        toFetch == SelectSeq(candidates, LAMBDA a : ~a.has_efforts)
        calls == det.has_efforts /\ Len(det.segment_efforts) > 0 /\ toFetch # <<>>
    IN IF calls /\ getValidToken(c, now, out).refreshed THEN <<RefreshRequest(c)>> ELSE <<>>

\* The "Sync Segments for Precision" button: refineMatches up to its first
\* await that suspends.
RefineMatches ==
    /\ ref.pc = "idle"
    /\ selectedActivity # NoActivity
    /\ auth.accessToken # ""
    /\ ~refining
    /\ ~useSegmentMatching
    /\ opsStarted < MaxOps
    /\ opsStarted' = opsStarted + 1
    /\ UNCHANGED <<callVars, remoteVars, now, db, activities, syncView, selectedActivity, segmentView,
                   sync, seg, fa, se, progressLog, lastSync, lastSeg>>
    /\ \E out \in RefreshOutcomes(issued + 1, now) :
         LET similar == similarActivities(selectedActivity, activities, useSegmentMatching)
             r == getValidToken(auth, now, out)
         IN IF ~selectedActivity.has_efforts
            THEN /\ tokenLog' = Append(tokenLog, TokenCall("refineMatches", auth, r))
                 /\ netLog' = IF r.refreshed THEN Append(netLog, RefreshRequest(auth)) ELSE netLog
                 /\ issued' = IF r.kind = "return" /\ r.refreshed THEN issued + 1 ELSE issued
                 /\ auth' = AuthAfter(auth, r)
                 /\ localStorage' = StorageAfter(localStorage, r)
                 /\ UNCHANGED useSegmentMatching
                 /\ IF r.kind = "throw"
                    THEN RefineEnds("failed")
                    ELSE /\ UNCHANGED refineLog
                         /\ refining' = TRUE
                         /\ ref' = [NoRefine EXCEPT !.pc = "selected", !.cap = auth,
                                                    !.selected = selectedActivity,
                                                    !.similar = similar, !.token = r.token]
            ELSE /\ RefineCandidates(auth, similar, selectedActivity, FALSE, out)
                 /\ netLog' = netLog \o RefineCandidatesRequest(auth, similar, selectedActivity, out)

\* The effect on [selectedActivity?.id]: the values of refining and
\* useSegmentMatching after a render in which the id went from old to new,
\* given the values r and u the handler set.
RefiningAfterEffect(old, new, r) == IF old.id # new.id /\ new = NoActivity THEN FALSE ELSE r
MatchingAfterEffect(old, new, u) == IF old.id # new.id THEN FALSE ELSE u

\* fetchActivityDetails for the selected activity settles.
RefineSelectedDetail ==
    /\ ref.pc = "selected"
    /\ netLog' = Append(netLog, Get("activity", ref.selected.id, ref.token))
    /\ UNCHANGED <<callVars, remoteVars, issued, now, authVars, db, activities, syncView,
                   selectedActivity, useSegmentMatching, segmentView, sync, seg, fa, se,
                   opsStarted, progressLog, tokenLog, lastSync, lastSeg>>
    /\ \E out \in DetailOutcomes(ref.selected.id) :
         IF out.kind = "throw"
         THEN RefineEnds("failed")
         ELSE /\ ref' = [ref EXCEPT !.pc = "saveSelected", !.detailedSelected = out.items[1]]
              /\ UNCHANGED <<refining, refineLog>>

\* await saveActivities([detailedSelected]) settles; on success the state is
\* updated and the handler runs on to its next await.
RefineSaveSelected ==
    /\ ref.pc = "saveSelected"
    /\ UNCHANGED <<callVars, remoteVars, now, syncView, segmentView, sync, seg, fa, se, opsStarted,
                   progressLog, lastSync, lastSeg>>
    /\ \E saved \in BOOLEAN, out \in RefreshOutcomes(issued + 1, now) :
         IF saved
         THEN LET det == ref.detailedSelected
              IN /\ db' = saveActivities(db, <<det>>)
                 /\ activities' = ReplaceById(activities, det)
                 /\ selectedActivity' = det
                 /\ RefineCandidates(ref.cap, ref.similar, det, selectedActivity.id # det.id, out)
                 /\ netLog' = netLog \o RefineCandidatesRequest(ref.cap, ref.similar, det, out)
         ELSE /\ RefineEnds("failed")
              /\ UNCHANGED <<issued, authVars, db, activities, selectedActivity,
                             useSegmentMatching, netLog, tokenLog>>

\* The 400 ms throttle elapses and fetchActivityDetails for the next
\* candidate settles; a failure skips the candidate.  After the last
\* candidate, with nothing fetched, the handler runs to its end.
RefineFetchCandidate ==
    /\ ref.pc = "candidates"
    /\ ref.toFetch # <<>>
    /\ netLog' = netLog \o <<Delay("activity"),
                             Get("activity", Head(ref.toFetch).id, ref.token)>>
    /\ UNCHANGED <<callVars, remoteVars, issued, now, authVars, db, activities, syncView,
                   selectedActivity, segmentView, sync, seg, fa, se, opsStarted,
                   progressLog, tokenLog, lastSync, lastSeg>>
    /\ \E out \in DetailOutcomes(Head(ref.toFetch).id) :
         LET newDetails == IF out.kind = "throw" THEN ref.newDetails
                           ELSE Append(ref.newDetails, out.items[1])
             rest == Tail(ref.toFetch)
         IN IF rest # <<>>
            THEN /\ ref' = [ref EXCEPT !.toFetch = rest, !.newDetails = newDetails]
                 /\ UNCHANGED <<refining, useSegmentMatching, refineLog>>
            ELSE IF newDetails # <<>>
            THEN /\ ref' = [ref EXCEPT !.pc = "saveDetails", !.toFetch = rest,
                                       !.newDetails = newDetails]
                 /\ UNCHANGED <<refining, useSegmentMatching, refineLog>>
            ELSE /\ useSegmentMatching' = TRUE
                 /\ RefineEnds("ok")

\* RefineSaveDetails turning segment matching on whether or not the save
\* succeeded.
RefineSaveDetailsAlwaysMatching ==
    /\ ref.pc = "saveDetails"
    /\ UNCHANGED <<callVars, remoteVars, issued, now, authVars, syncView, selectedActivity,
                   segmentView, sync, seg, fa, se, opsStarted, logVars>>
    /\ \E saved \in BOOLEAN, k \in 0..Len(ref.newDetails) :
         IF saved
         THEN /\ db' = saveActivities(db, ref.newDetails)
              /\ activities' = MapValues(MapValues(<<>>, activities), ref.newDetails)
              /\ useSegmentMatching' = TRUE
              /\ RefineEnds("ok")
         ELSE /\ db' = saveActivities(db, SubSeq(ref.newDetails, 1, k))
              /\ useSegmentMatching' = TRUE
              /\ RefineEnds("failed")
              /\ UNCHANGED activities

\* await saveActivities(newDetails) settles.  A rejected bulkPut may have
\* written any prefix of the list.
RefineSaveDetails ==
    /\ ref.pc = "saveDetails"
    /\ UNCHANGED <<callVars, remoteVars, issued, now, authVars, syncView, selectedActivity,
                   segmentView, sync, seg, fa, se, opsStarted, logVars>>
    /\ \E saved \in BOOLEAN, k \in 0..Len(ref.newDetails) :
         IF saved
         THEN /\ db' = saveActivities(db, ref.newDetails)
              /\ activities' = MapValues(MapValues(<<>>, activities), ref.newDetails)
              /\ useSegmentMatching' = TRUE
              /\ RefineEnds("ok")
         ELSE /\ db' = saveActivities(db, SubSeq(ref.newDetails, 1, k))
              /\ RefineEnds("failed")
              /\ UNCHANGED <<activities, useSegmentMatching>>

\* ------------------------------------------------------ the activity modal
\* A click on a row of the activity table or of the comparison list.
SelectActivity ==
    /\ \E i \in 1..Len(activities) :
         /\ activities[i] # selectedActivity
         /\ selectedActivity' = activities[i]
         /\ refining' = RefiningAfterEffect(selectedActivity, activities[i], refining)
         /\ useSegmentMatching' =
                MatchingAfterEffect(selectedActivity, activities[i], useSegmentMatching)
    /\ UNCHANGED <<refineLog, callVars, remoteVars, issued, now, authVars, db, activities, syncView, segmentView,
                   sync, seg, ref, fa, se, opsStarted, logVars>>

\* The modal's close button.
CloseActivity ==
    /\ selectedActivity # NoActivity
    /\ selectedActivity' = NoActivity
    /\ refining' = RefiningAfterEffect(selectedActivity, NoActivity, refining)
    /\ useSegmentMatching' = MatchingAfterEffect(selectedActivity, NoActivity, useSegmentMatching)
    /\ UNCHANGED <<refineLog, callVars, remoteVars, issued, now, authVars, db, activities, syncView, segmentView,
                   sync, seg, ref, fa, se, opsStarted, logVars>>

\* ------------------------------------------------ navigation and settings
\* A NavButton of the sidebar: setView(mode).  The activity modal, a
\* full-screen overlay, covers the sidebar while it is open.
NavButton ==
    /\ selectedActivity = NoActivity
    /\ \E mode \in {"DASHBOARD", "DATA", "SETTINGS"} :
         /\ view # mode
         /\ view' = mode
    /\ UNCHANGED <<refineLog, callVars, remoteVars, issued, now, authVars, db, activities, loading,
                   syncProgress, activityView, segmentView, sync, seg, ref, fa, se,
                   opsStarted, logVars>>

\* The "Clear Local Database" button of the settings view, the confirm
\* accepted: await clearDatabase(), then setActivities([]).  Dexie runs the
\* transactions on the table in the order they were opened, so a clear
\* opened while a put of refineMatches is pending runs after that put; the
\* puts are written here when they settle, and the clear waits for them.
ClearLocalDatabase ==
    /\ view = "SETTINGS"
    /\ selectedActivity = NoActivity
    /\ ref.pc \notin {"saveSelected", "saveDetails"}
    /\ db' = clearDatabase(db)
    /\ activities' = <<>>
    /\ UNCHANGED <<refineLog, callVars, remoteVars, issued, now, authVars, syncView, activityView,
                   segmentView, sync, seg, ref, fa, se, opsStarted, logVars>>

\* ========================================================== specifications
\* The App state after construction, credentials, data and the selected
\* activity aside.
InitView ==
    /\ issued = 0
    /\ now = StartTime
    /\ loading = FALSE
    /\ syncProgress = 0
    /\ view = "DASHBOARD"
    /\ refining = FALSE
    /\ useSegmentMatching = FALSE
    /\ selectedSegmentDetail = NoSegment
    /\ selectedSegmentEfforts = <<>>
    /\ loadingSegment = FALSE
    /\ segmentDownloadProgress = 0
    /\ sync = NoSync
    /\ seg = NoSeg
    /\ ref = NoRefine
    /\ opsStarted = 0
    /\ netLog = <<>>
    /\ progressLog = <<>>
    /\ tokenLog = <<>>
    /\ lastSync = NeverSynced
    /\ lastSeg = NoSegmentRun
    /\ refineLog = <<>>

\* No activity is selected.
InitApp ==
    /\ InitView
    /\ selectedActivity = NoActivity

\* No code in the URL, no popup, no call of the transport on its own.
InitIdle ==
    /\ InitApp
    /\ transport = NoTransport
    /\ authCode = NoAuthCode

\* A connection whose token does not expire within a behaviour.
Connected == Credentials("cid", "sec", "a0", "r0", 0)

\* ---- the paginated fetchers on their own: one call of one of them, against
\* any remote.
InitFetch ==
    /\ InitIdle
    /\ auth = Connected
    /\ localStorage = Stored(auth)
    /\ db = {}
    /\ activities = <<>>
    /\ \/ /\ remoteActivities \in Remotes(ListOutcomes(ActivityPages), ActivityTails)
          /\ remoteEfforts = EndedRemote
          /\ fa = NewCall(auth.accessToken)
          /\ se = NoCall
       \/ /\ remoteActivities = EndedRemote
          /\ remoteEfforts \in Remotes(ListOutcomes(EffortPages), EffortTails)
          /\ fa = NoCall
          /\ se = NewCall(auth.accessToken)

NextFetch == FetchAllActivitiesPage \/ FetchSegmentEffortsPage

SpecFetch == InitFetch /\ [][NextFetch]_vars

\* ---- handleSync: any credentials found in localStorage (each key is read
\* on its own, lines 112-114), the activities init() loaded from the store.
StoredActivities == {{}, {Summary(1)}, {Activity(1, 2, <<Effort(1, SegmentId, 0, 50)>>), Summary(2)}}

SyncCredentials ==
    {Credentials(cid, sec, access, refresh, expires) :
        cid \in {"cid"}, sec \in {"", "sec"}, access \in {"", "a0"}, refresh \in {"", "r0"},
        expires \in {0, StartTime + 30, StartTime + 120}}

InitSync ==
    /\ InitIdle
    /\ auth \in SyncCredentials
    /\ localStorage = Stored(auth)
    /\ db \in StoredActivities
    /\ activities = getAllActivities(db)
    /\ remoteActivities \in Remotes(ListOutcomes(ActivityPages), {ReturnList(<<>>)})
    /\ remoteEfforts = EndedRemote
    /\ fa = NoCall
    /\ se = NoCall

NextSync ==
    \/ HandleSync
    \/ HandleSyncClear
    \/ FetchAllActivitiesPage
    \/ HandleSyncSave
    \/ HandleSyncFetchFailed

SpecSync == InitSync /\ [][NextSync]_vars

\* ---- handleSegmentClick: a connected App whose activity list holds
\* activities with embedded efforts.  The list may hold a record twice: the
\* remote list pages overlap when an activity is uploaded between two page
\* requests, setActivities keeps both summaries, and refineMatches replaces
\* both by the detail.
LocalActivities ==
    {Summary(2),
     Activity(1, 2, <<Effort(1, SegmentId, 0, 50)>>),
     Activity(2, 1, <<Effort(3, SegmentId + 1, 1, 40), Effort(2, SegmentId, 1, 60)>>)}

\* handleSegmentClick does not look at the error fetchSegmentEfforts throws:
\* one thrown error stands for all.
EffortOutcomes ==
    {o \in ListOutcomes(EffortPages) : o.kind = "throw" => o.msg = "Failed to fetch"}

ActivityLists == UNION {[1..n -> LocalActivities] : n \in 0..2}

InitSegment ==
    /\ InitIdle
    /\ auth = Connected
    /\ localStorage = Stored(auth)
    /\ activities \in ActivityLists
    /\ db = Range(activities)
    /\ remoteActivities = EndedRemote
    /\ remoteEfforts \in Remotes(EffortOutcomes, EffortTails)
    /\ fa = NoCall
    /\ se = NoCall

NextSegment ==
    \/ HandleSegmentClick
    \/ HandleSegmentClickDetail
    \/ FetchSegmentEffortsPage
    \/ HandleSegmentClickMerge

SpecSegment == InitSegment /\ [][NextSegment]_vars

\* ---- getValidToken under the handlers that call it on entry, for any
\* credentials found in localStorage, the clock running.
AuthCredentials ==
    {Credentials(cid, sec, access, refresh, expires) :
        cid \in {"", "cid"}, sec \in {"", "sec"}, access \in {"", "a0"}, refresh \in {"", "r0"},
        expires \in {0, StartTime + 30, StartTime + 60, StartTime + 120}}

\* A remote that answers every list request with 401.
Revoked == [script |-> <<>>, tail |-> Throw("Unauthorized: Access token is invalid or expired.")]
SyncedOnce == [script |-> <<ReturnList(<<Summary(1), Summary(2)>>)>>, tail |-> ReturnList(<<>>)]

InitAuth ==
    /\ InitIdle
    /\ auth \in AuthCredentials
    /\ localStorage = Stored(auth)
    /\ db = {Summary(1)}
    /\ activities = getAllActivities(db)
    /\ remoteActivities \in {EndedRemote, Revoked}
    /\ remoteEfforts = EndedRemote
    /\ fa = NoCall
    /\ se = NoCall

NextAuth ==
    \/ Tick
    \/ HandleSync
    \/ HandleSyncClear
    \/ FetchAllActivitiesPage
    \/ HandleSyncSave
    \/ HandleSyncFetchFailed
    \/ HandleSegmentClick
    \/ HandleSegmentClickDetail
    \/ FetchSegmentEffortsPage
    \/ HandleSegmentClickMerge

SpecAuth == InitAuth /\ [][NextAuth]_vars

\* ---- refineMatches and the activity modal, connected with a refreshable
\* token, the clock running.
InitRefine ==
    /\ InitIdle
    /\ auth \in {Credentials("cid", "sec", "a0", "r0", expires) :
                    expires \in {StartTime + 30, StartTime + 120}}
    /\ localStorage = Stored(auth)
    /\ db = {Summary(1), Summary(2)}
    /\ activities = getAllActivities(db)
    /\ remoteActivities = SyncedOnce
    /\ remoteEfforts = EndedRemote
    /\ fa = NoCall
    /\ se = NoCall

NextRefine ==
    \/ Tick
    \/ SelectActivity
    \/ CloseActivity
    \/ RefineMatches
    \/ RefineSelectedDetail
    \/ RefineSaveSelected
    \/ RefineFetchCandidate
    \/ RefineSaveDetails

SpecRefine == InitRefine /\ [][NextRefine]_vars

\* ---- the store under handleSync and refineMatches together: a sync may run
\* while the details of the open activity and its candidates are fetched.
\* The store holds one activity with its details and one summary.
InitStore ==
    /\ InitIdle
    /\ auth = Connected
    /\ localStorage = Stored(auth)
    /\ db = {Activity(1, 2, <<Effort(1, SegmentId, 0, 50)>>), Summary(2)}
    /\ activities = getAllActivities(db)
    /\ remoteActivities \in {SyncedOnce, Revoked}
    /\ remoteEfforts = EndedRemote
    /\ fa = NoCall
    /\ se = NoCall

NextStore ==
    \/ HandleSync
    \/ HandleSyncClear
    \/ FetchAllActivitiesPage
    \/ HandleSyncSave
    \/ HandleSyncFetchFailed
    \/ SelectActivity
    \/ CloseActivity
    \/ RefineMatches
    \/ RefineSelectedDetail
    \/ RefineSaveSelected
    \/ RefineFetchCandidate
    \/ RefineSaveDetails

SpecStore == InitStore /\ [][NextStore]_vars

\* ---- the activities in the state and in the store, under everything that
\* writes them: handleSync, refineMatches and the clearing of the database,
\* against a remote that lists the two stored activities or refuses the
\* token.
InitShared ==
    /\ InitIdle
    /\ auth = Connected
    /\ localStorage = Stored(auth)
    /\ db = {Activity(1, 2, <<Effort(1, SegmentId, 0, 50)>>), Summary(2)}
    /\ activities = getAllActivities(db)
    /\ remoteActivities \in {SyncedOnce, Revoked}
    /\ remoteEfforts = EndedRemote
    /\ fa = NoCall
    /\ se = NoCall

NextShared ==
    \/ HandleSync
    \/ HandleSyncClear
    \/ FetchAllActivitiesPage
    \/ HandleSyncSave
    \/ HandleSyncFetchFailed
    \/ SelectActivity
    \/ CloseActivity
    \/ RefineMatches
    \/ RefineSelectedDetail
    \/ RefineSaveSelected
    \/ RefineFetchCandidate
    \/ RefineSaveDetails
    \/ NavButton
    \/ ClearLocalDatabase

SpecShared == InitShared /\ [][NextShared]_vars

\* ---- similarActivities over a pool of activities that differ in type,
\* distance, elevation gain, start point and segments.  The pool is in any
\* order: a sync stores the order the remote gave.
Varied(i, date, type, distance, gain, point, efforts) ==
    [Activity(i, date, efforts) EXCEPT !.type = type, !.distance = distance,
                                       !.total_elevation_gain = gain,
                                       !.has_latlng = point # 0, !.start_latlng = point]

SimilarPool ==
    {Varied(1, 3, "Run", 10000, 0, 1, <<Effort(1, SegmentId, 0, 50)>>),
     Varied(2, 1, "Run", 10500, 20, 2,
            <<Effort(2, SegmentId, 1, 60), Effort(3, SegmentId + 1, 1, 40)>>),
     Varied(3, 2, "Run", 10510, 20, 1, <<Effort(4, SegmentId + 1, 2, 45)>>),
     Varied(4, 2, "Ride", 10000, 0, 1, <<Effort(5, SegmentId, 2, 30)>>),
     Varied(5, 4, "Run", 10000, 0, 0, <<Effort(6, SegmentId, 4, 55)>>),
     Varied(6, 1, "Run", 10400, 21, 3, <<>>)}

SimilarPools ==
    {p \in UNION {[1..n -> SimilarPool] : n \in 0..3} :
        \A i, j \in 1..Len(p) : p[i].id = p[j].id => i = j}

InitSimilar ==
    /\ InitIdle
    /\ auth = Connected
    /\ localStorage = Stored(auth)
    /\ activities \in SimilarPools
    /\ db = Range(activities)
    /\ remoteActivities = EndedRemote
    /\ remoteEfforts = EndedRemote
    /\ fa = NoCall
    /\ se = NoCall

NextSimilar ==
    \/ SelectActivity
    \/ CloseActivity
    \/ RefineMatches

SpecSimilar == InitSimilar /\ [][NextSimilar]_vars

\* ---- handleSegmentClick over activities that pass the segment more than
\* once (laps of one loop), the remote history empty.
LappedActivities ==
    {Summary(3),
     Activity(1, 2, <<Effort(1, SegmentId, 0, 50), Effort(4, SegmentId, 5, 45)>>),
     Activity(2, 1, <<Effort(3, SegmentId + 1, 1, 40), Effort(2, SegmentId, 1, 60),
                      Effort(5, SegmentId, 0, 62)>>)}

InitLapped ==
    /\ InitIdle
    /\ auth = Connected
    /\ localStorage = Stored(auth)
    /\ activities \in UNION {[1..n -> LappedActivities] : n \in 0..2}
    /\ db = Range(activities)
    /\ remoteActivities = EndedRemote
    /\ remoteEfforts \in Remotes(EffortOutcomes, {ReturnList(<<>>)})
    /\ fa = NoCall
    /\ se = NoCall

NextLapped ==
    \/ HandleSegmentClick
    \/ HandleSegmentClickDetail
    \/ FetchSegmentEffortsPage
    \/ HandleSegmentClickMerge

SpecLapped == InitLapped /\ [][NextLapped]_vars

\* ---- refineMatches over more base matches than it takes candidates: all
\* activities alike, in ascending start date the first PoolDetailed with
\* their details, then summaries on both sides of the candidate limit.
PoolDetailed == MaxCandidates - 2
PoolSize == MaxCandidates + 2

Alike(i) ==
    IF i <= PoolDetailed
    THEN Varied(i, i, "Run", 10000, 100, 1, <<Effort(i, SegmentId, i, 50)>>)
    ELSE [Varied(i, i, "Run", 10000, 100, 1, <<>>) EXCEPT !.has_efforts = FALSE]

\* The list in the order of getAllActivities: newest first.
BatchPool == [k \in 1..PoolSize |-> Alike(PoolSize + 1 - k)]

\* The detail view is open on any activity of the pool.
InitBatch ==
    /\ InitView
    /\ transport = NoTransport
    /\ authCode = NoAuthCode
    /\ selectedActivity \in Range(BatchPool)
    /\ auth = Connected
    /\ localStorage = Stored(auth)
    /\ activities = BatchPool
    /\ db = Range(activities)
    /\ remoteActivities = EndedRemote
    /\ remoteEfforts = EndedRemote
    /\ fa = NoCall
    /\ se = NoCall

NextBatch ==
    \/ CloseActivity
    \/ RefineMatches
    \/ RefineSelectedDetail
    \/ RefineSaveSelected
    \/ RefineFetchCandidate
    \/ RefineSaveDetails

SpecBatch == InitBatch /\ [][NextBatch]_vars

\* ---- one call of fetchWithProxyFallback with a bearer token, against any
\* pair of exchanges.
TransportTokens == {"a0", "a1"}
TransportBodies == {ReturnList(<<>>), ReturnList(<<Summary(1)>>), ReturnNotList}

InitTransport ==
    /\ InitApp
    /\ authCode = NoAuthCode
    /\ auth = Connected
    /\ localStorage = Stored(auth)
    /\ db = {}
    /\ activities = <<>>
    /\ remoteActivities = EndedRemote
    /\ remoteEfforts = EndedRemote
    /\ fa = NoCall
    /\ se = NoCall
    /\ \E token \in TransportTokens, dj \in TransportBodies, pj \in TransportBodies :
          \E direct \in Exchanges(dj), proxy \in Exchanges(pj) :
              transport = NewTransport(token, direct, proxy)

NextTransport ==
    \/ FetchDirect
    \/ FetchViaProxy

SpecTransport == InitTransport /\ [][NextTransport]_vars

\* ---- the loading flag under handleSync and handleAuthCode: the App
\* constructed with or without a code in its URL, connected or not.
LoadingCredentials == {Connected, Credentials("cid", "sec", "", "", 0), Credentials("", "", "", "", 0)}

InitLoading ==
    /\ InitApp
    /\ transport = NoTransport
    /\ authCode \in {[NoAuthCode EXCEPT !.url = u] : u \in BOOLEAN}
    /\ auth \in LoadingCredentials
    /\ localStorage = Stored(auth)
    /\ db = {Summary(1)}
    /\ activities = getAllActivities(db)
    /\ remoteActivities \in {SyncedOnce, Revoked}
    /\ remoteEfforts = EndedRemote
    /\ fa = NoCall
    /\ se = NoCall

NextLoading ==
    \/ InitAuthCode
    \/ ConnectToStrava
    \/ PopupPoll
    \/ ExchangeManualCode
    \/ HandleAuthCodeSettles
    \/ HandleSync
    \/ HandleSyncClear
    \/ FetchAllActivitiesPage
    \/ HandleSyncSave
    \/ HandleSyncFetchFailed

SpecLoading == InitLoading /\ [][NextLoading]_vars

\* ---- the credentials under getValidToken and handleAuthCode: the App is
\* connected with a token inside its expiry margin, or has only the client
\* id and secret; the page may have been opened with a code in its URL.
ExpiringCredentials ==
    {Credentials("cid", "sec", "a0", "r0", StartTime + TickSeconds),
     Credentials("cid", "sec", "", "", 0)}

InitCredentials ==
    /\ InitApp
    /\ transport = NoTransport
    /\ authCode \in {[NoAuthCode EXCEPT !.url = u] : u \in BOOLEAN}
    /\ auth \in ExpiringCredentials
    /\ localStorage = Stored(auth)
    /\ db = {Summary(1)}
    /\ activities = getAllActivities(db)
    /\ remoteActivities \in {SyncedOnce, Revoked}
    /\ remoteEfforts = EndedRemote
    /\ fa = NoCall
    /\ se = NoCall

NextCredentials ==
    \/ InitAuthCode
    \/ ConnectToStrava
    \/ PopupPoll
    \/ ExchangeManualCode
    \/ HandleAuthCodeSettles
    \/ HandleSync
    \/ HandleSyncClear
    \/ FetchAllActivitiesPage
    \/ HandleSyncSave
    \/ HandleSyncFetchFailed

SpecCredentials == InitCredentials /\ [][NextCredentials]_vars

\* ---- handleSync with every promise it awaits settling: the remote lists
\* two activities and ends, refuses the token, or never returns an empty
\* page.
NeverEmpty == [script |-> <<>>, tail |-> ReturnList(<<Summary(1)>>)]

InitSyncFair ==
    /\ InitIdle
    /\ auth = Connected
    /\ localStorage = Stored(auth)
    /\ db = {Summary(1)}
    /\ activities = getAllActivities(db)
    /\ remoteActivities \in {SyncedOnce, Revoked, NeverEmpty}
    /\ remoteEfforts = EndedRemote
    /\ fa = NoCall
    /\ se = NoCall

NextSyncFair ==
    \/ HandleSync
    \/ HandleSyncClear
    \/ FetchAllActivitiesPage
    \/ HandleSyncSave
    \/ HandleSyncFetchFailed

\* The event loop runs every continuation whose promise has settled, and
\* every request and every store operation settles.
SpecSyncFair ==
    /\ InitSyncFair
    /\ [][NextSyncFair]_vars
    /\ WF_vars(HandleSyncClear)
    /\ WF_vars(FetchAllActivitiesPage)
    /\ WF_vars(HandleSyncSave)
    /\ WF_vars(HandleSyncFetchFailed)

\* ================================================================== claims
\* The page numbers requested from endpoint fn, in order.
PagesRequested(fn) ==
    LET reqs == SelectSeq(netLog, LAMBDA e : e.ev = "request" /\ e.fn = fn)
    IN [i \in 1..Len(reqs) |-> reqs[i].page]

Upto(n) == [i \in 1..n |-> i]

\* The remote's first empty page is page n, all pages before it non-empty lists.
EndsAt(remote, n) ==
    /\ PageOutcome(remote, n) = ReturnList(<<>>)
    /\ \A p \in 1..(n - 1) :
          PageOutcome(remote, p).kind = "list" /\ PageOutcome(remote, p).items # <<>>

PagesBefore(remote, n) == Flatten([p \in 1..(n - 1) |-> PageOutcome(remote, p).items])

StopsAtFirstEmpty(st, remote, fn) ==
    \A n \in 1..(Len(remote.script) + 1) :
        (st.pc # "idle" /\ EndsAt(remote, n)) =>
            /\ st.pc = "loop" => (st.page <= n /\ PagesRequested(fn) = Upto(st.page - 1))
            /\ st.pc # "loop" =>
                  /\ st.pc = "returned"
                  /\ st.all = PagesBefore(remote, n)
                  /\ PagesRequested(fn) = Upto(n)

\* C2: when the remote's first empty page is page n (below the ceiling), a
\* call of fetchAllActivities or fetchSegmentEfforts requests pages 1..n once
\* each, in order, and returns the concatenation of pages 1..n-1; a short
\* non-empty page does not end it.
C2_StopsAtFirstEmptyPage ==
    /\ StopsAtFirstEmpty(fa, remoteActivities, "activities")
    /\ StopsAtFirstEmpty(se, remoteEfforts, "efforts")

\* Pages of 2, 1 and 0 items, all shorter than per_page: 3 items in 3 requests.
C2_Witness ==
    /\ fa.pc = "returned"
    /\ EndsAt(remoteActivities, 3)
    /\ Len(PageOutcome(remoteActivities, 2).items) < Len(PageOutcome(remoteActivities, 1).items)
    /\ Len(PageOutcome(remoteActivities, 1).items) < perPage
    /\ Len(fa.all) = 3
    /\ PagesRequested("activities") = <<1, 2, 3>>

\* C3: one call of fetchSegmentEfforts requests at most 50 pages, one call of
\* fetchAllActivities at most 500, and the pages requested are 1, 2, 3, ...
\* without a gap or a repeat.
C3_PageCeiling ==
    LET e == PagesRequested("efforts")
        a == PagesRequested("activities")
    IN /\ Len(e) <= 50 /\ e = Upto(Len(e))
       /\ Len(a) <= 500 /\ a = Upto(Len(a))

\* A remote that never returns an empty page: the call returns after 500 requests.
C3_Witness ==
    /\ fa.pc = "returned"
    /\ \A p \in 1..3 : PageOutcome(remoteActivities, p).items # <<>>
    /\ Len(PagesRequested("activities")) = 500
    /\ Len(fa.all) >= 500

\* C1: a handleSync call that failed, at whatever step, left db.activities
\* holding exactly the records it held when the call started.
C1_FailedSyncLeavesStoreUntouched ==
    lastSync.outcome = "failed" => lastSync.dbAfter = lastSync.dbBefore

NoTwoWithSameId(efforts) ==
    \A i, j \in 1..Len(efforts) : efforts[i].id = efforts[j].id => i = j

\* C4: the effort list a completed handleSegmentClick stored holds no id
\* twice, and as many efforts as there are distinct ids among the local and
\* the remote efforts it gathered.
C4_MergedIdsAreDistinct ==
    lastSeg.outcome = "ok" =>
        /\ NoTwoWithSameId(selectedSegmentEfforts)
        /\ Len(selectedSegmentEfforts) = Cardinality(Ids(lastSeg.local) \cup Ids(lastSeg.remote))

\* e is the effort m embedded in activity act, its start date backfilled.
Backfilled(e, m, act) ==
    /\ e.id = m.id
    /\ e.segment = m.segment
    /\ e.elapsed_time = m.elapsed_time
    /\ e.start_date = IF m.start_date # 0 THEN m.start_date ELSE act.start_date

\* C5: every effort collected from the in-memory activities (the embedded
\* effort, its start date backfilled from the activity) is in the stored
\* list as collected, and no stored effort with a local id is a remote record.
C5_LocalEffortsWin ==
    lastSeg.outcome = "ok" =>
        /\ \A i \in 1..Len(lastSeg.local) :
              /\ lastSeg.local[i] \in Range(selectedSegmentEfforts)
              /\ \E a \in 1..Len(activities) :
                    \E m \in 1..Len(activities[a].segment_efforts) :
                        Backfilled(lastSeg.local[i], activities[a].segment_efforts[m], activities[a])
        /\ \A j \in 1..Len(selectedSegmentEfforts) :
              selectedSegmentEfforts[j].id \in Ids(lastSeg.local) =>
                  selectedSegmentEfforts[j] \in Range(lastSeg.local)

\* A remote effort with the id of a local one, a different record, and the
\* local one had its date backfilled.
C5_Witness ==
    /\ lastSeg.outcome = "ok"
    /\ \E i \in 1..Len(lastSeg.local), k \in 1..Len(lastSeg.remote) :
          /\ lastSeg.local[i].id = lastSeg.remote[k].id
          /\ lastSeg.local[i] # lastSeg.remote[k]
          /\ lastSeg.local[i] \in Range(selectedSegmentEfforts)
          /\ \E a \in 1..Len(activities) :
                /\ activities[a].segment_efforts # <<>>
                /\ activities[a].segment_efforts[1].id = lastSeg.local[i].id
                /\ activities[a].segment_efforts[1].start_date = 0
    /\ \E k \in 1..Len(lastSeg.remote) : lastSeg.remote[k].id \notin Ids(lastSeg.local)

Occurrences(s, e) == Cardinality({i \in 1..Len(s) : s[i] = e})

\* C6: when fetchSegmentEfforts threw after the segment detail arrived, the
\* call completed without failure, the detail is selected and the stored
\* list is the local efforts in ascending start date.
C6_RemoteFailureKeepsLocal ==
    lastSeg.remoteThrew =>
        /\ lastSeg.outcome = "ok"
        /\ selectedSegmentDetail = Segment(SegmentId)
        /\ Len(selectedSegmentEfforts) = Len(lastSeg.local)
        /\ \A e \in Range(lastSeg.local) :
              Occurrences(selectedSegmentEfforts, e) = Occurrences(lastSeg.local, e)
        /\ \A i \in 1..(Len(selectedSegmentEfforts) - 1) :
              selectedSegmentEfforts[i].start_date <= selectedSegmentEfforts[i + 1].start_date

\* The second page of efforts threw after the first had arrived; two local
\* efforts, collected out of date order.
C6_Witness ==
    /\ lastSeg.remoteThrew
    /\ PagesRequested("efforts") = <<1, 2>>
    /\ PageOutcome(remoteEfforts, 1).items # <<>>
    /\ Len(lastSeg.local) = 2
    /\ selectedSegmentEfforts # lastSeg.local
    /\ ~loadingSegment

RefreshRequests == SelectSeq(netLog, LAMBDA e : e.ev = "request" /\ e.fn = "refresh")

\* C7: a getValidToken call issues the refresh request exactly when the
\* expiresAt it reads is non-zero, now > expiresAt - 60, and the
\* refreshToken, clientId and clientSecret it reads are all non-empty.
C7_RefreshIffExpiringAndRefreshable ==
    /\ \A i \in 1..Len(tokenLog) :
          LET c == tokenLog[i].cap
          IN tokenLog[i].refreshed <=>
                /\ c.expiresAt # 0
                /\ tokenLog[i].at > c.expiresAt - 60
                /\ c.refreshToken # "" /\ c.clientId # "" /\ c.clientSecret # ""
    /\ Len(RefreshRequests) = Cardinality({i \in 1..Len(tokenLog) : tokenLog[i].refreshed})

\* A call at expiresAt - 30 refreshed; a later call at exactly expiresAt - 60
\* of the new token did not.
C7_Witness ==
    \E i, j \in 1..Len(tokenLog) :
        /\ i < j
        /\ tokenLog[i].cap.expiresAt = tokenLog[i].at + 30
        /\ tokenLog[i].refreshed
        /\ tokenLog[j].cap.expiresAt = tokenLog[j].at + 60
        /\ tokenLog[j].cap.refreshToken # ""
        /\ tokenLog[j].cap.clientSecret # ""
        /\ ~tokenLog[j].refreshed
        /\ Len(RefreshRequests) = 1

\* C8: no getValidToken call returns an empty token.
C8_NeverReturnsEmptyToken ==
    \A i \in 1..Len(tokenLog) : tokenLog[i].kind = "return" => tokenLog[i].token # ""

\* C9: once a getValidToken call has refreshed, a later call made while the
\* store still holds that token, outside its 60-second margin, returns that
\* token and issues no refresh request.
C9_RefreshVisibleToLaterCalls ==
    \A i, j \in 1..Len(tokenLog) :
        (/\ i < j
         /\ tokenLog[i].kind = "return" /\ tokenLog[i].refreshed
         /\ tokenLog[j].stored.accessToken = tokenLog[i].token
         /\ tokenLog[j].at <= tokenLog[j].stored.expiresAt - 60)
        => (~tokenLog[j].refreshed /\ tokenLog[j].token = tokenLog[i].token)

\* C10: a handleSync call that failed in getValidToken (the refresh failed,
\* or was impossible) took the offer-to-disconnect path.
C10_TokenFailureOffersDisconnect ==
    (lastSync.outcome = "failed" /\ lastSync.step = "token") => lastSync.path = "offer"

\* C19: a paginated fetch that returned normally was given a list by every
\* page request it made; a failed page or a response that is not a list
\* ends the fetch with an error.
C19_FailedPageRaises ==
    /\ fa.pc = "returned" =>
          \A i \in 1..Len(PagesRequested("activities")) :
              PageOutcome(remoteActivities, PagesRequested("activities")[i]).kind = "list"
    /\ se.pc = "returned" =>
          \A i \in 1..Len(PagesRequested("efforts")) :
              PageOutcome(remoteEfforts, PagesRequested("efforts")[i]).kind = "list"

\* The counts the progress callback of fetcher fn was invoked with, in order.
ReportedCounts(fn) ==
    LET calls == SelectSeq(progressLog, LAMBDA e : e.fn = fn)
    IN [i \in 1..Len(calls) |-> calls[i].count]

\* Of the pages 1..n, those that gave a non-empty list.
NonEmptyPages(remote, n) ==
    SelectSeq(Upto(n), LAMBDA p : PageOutcome(remote, p).kind = "list"
                                   /\ PageOutcome(remote, p).items # <<>>)

\* counts holds one entry per non-empty page requested so far, each the
\* previous one plus the length of its page.
OncePerNonEmptyPage(counts, remote, n) ==
    LET pages == NonEmptyPages(remote, n)
    IN /\ Len(counts) = Len(pages)
       /\ \A i \in 1..Len(counts) :
             counts[i] = (IF i = 1 THEN 0 ELSE counts[i - 1])
                         + Len(PageOutcome(remote, pages[i]).items)

\* C20: during a paginated fetch the progress callback has been invoked once
\* for each non-empty page received, with the cumulative item count, and not
\* for an empty page, a failed page or a response that is not a list.
C20_ProgressOncePerNonEmptyPage ==
    /\ OncePerNonEmptyPage(ReportedCounts("activities"), remoteActivities,
                           Len(PagesRequested("activities")))
    /\ OncePerNonEmptyPage(ReportedCounts("efforts"), remoteEfforts,
                           Len(PagesRequested("efforts")))

\* A page of 2 items reported as 2; the second request failed, unreported.
C20_Witness ==
    /\ fa.pc = "thrown"
    /\ PageOutcome(remoteActivities, 2).kind = "throw"
    /\ PagesRequested("activities") = <<1, 2>>
    /\ ReportedCounts("activities") = <<2>>

\* Whether act is in the base match set for reference, the geo test aside.
PassesTolerances(reference, act) ==
    act \in Range(similarActivities([reference EXCEPT !.has_latlng = FALSE], <<act>>, FALSE))

\* C12: for the selected activity and any activity of the pool of the same
\* type, each passes the distance and elevation tolerances with the other as
\* reference, or neither does.
C12_ToleranceIsSymmetric ==
    selectedActivity # NoActivity =>
        \A i \in 1..Len(activities) :
            activities[i].type = selectedActivity.type =>
                (PassesTolerances(selectedActivity, activities[i])
                    <=> PassesTolerances(activities[i], selectedActivity))

\* The conditions of the base match, in the units of the model (metres).
MeetsBaseConditions(reference, a) ==
    /\ a.type = reference.type
    /\ 20 * Abs(a.distance - reference.distance) <= reference.distance
    /\ \/ Abs(a.total_elevation_gain - reference.total_elevation_gain) <= 20
       \/ 10 * Abs(a.total_elevation_gain - reference.total_elevation_gain)
             <= reference.total_elevation_gain
    /\ reference.has_latlng =>
          (a.has_latlng /\ 400 * Abs(a.start_latlng - reference.start_latlng) <= 500)

\* C14: an activity of the pool is in the base match set of the selected
\* activity exactly when it has the same type, is within 5% of its distance
\* and max(20, 10%) of its elevation gain and, if the selected activity has a
\* start point, has a start point within 0.5 km of it.
C14_BaseMatchConditions ==
    selectedActivity # NoActivity =>
        \A i \in 1..Len(activities) :
            activities[i] \in Range(similarActivities(selectedActivity, activities, FALSE))
                <=> MeetsBaseConditions(selectedActivity, activities[i])

\* A reference with no elevation gain accepts an activity 20 m and 5% off,
\* 400 m away, and rejects one without a start point.
C14_Witness ==
    /\ selectedActivity # NoActivity
    /\ selectedActivity.total_elevation_gain = 0
    /\ selectedActivity.has_latlng
    /\ \E i, j \in 1..Len(activities) :
          /\ activities[i].total_elevation_gain = 20
          /\ 20 * (activities[i].distance - selectedActivity.distance) = selectedActivity.distance
          /\ activities[i].start_latlng # selectedActivity.start_latlng
          /\ activities[i] \in Range(similarActivities(selectedActivity, activities, FALSE))
          /\ ~activities[j].has_latlng
          /\ activities[j].distance = selectedActivity.distance
          /\ activities[j] \notin Range(similarActivities(selectedActivity, activities, FALSE))

\* C15: a selected activity that is in the pool is in the result of
\* similarActivities, with segment matching off and on.
C15_ResultHoldsReference ==
    (selectedActivity # NoActivity /\ selectedActivity \in Range(activities)) =>
        \A flag \in BOOLEAN :
            selectedActivity \in Range(similarActivities(selectedActivity, activities, flag))

\* Segment matching is on and has removed a base match; the selected one stays.
C15_Witness ==
    /\ useSegmentMatching
    /\ selectedActivity \in Range(activities)
    /\ selectedActivity \in Range(similarActivities(selectedActivity, activities, TRUE))
    /\ Len(similarActivities(selectedActivity, activities, TRUE))
          < Len(similarActivities(selectedActivity, activities, FALSE))

NonDecreasingDates(s) == \A i \in 1..(Len(s) - 1) : s[i].start_date <= s[i + 1].start_date

\* C16: the result of similarActivities is in non-decreasing start date, with
\* segment matching off and on, whatever the order of the pool.
C16_ResultSortedByDate ==
    \A flag \in BOOLEAN :
        NonDecreasingDates(similarActivities(selectedActivity, activities, flag))

\* A pool held newest-first gives a result of several activities, oldest first.
C16_Witness ==
    /\ selectedActivity # NoActivity
    /\ Len(activities) = 3
    /\ \A i \in 1..2 : activities[i].start_date > activities[i + 1].start_date
    /\ Len(similarActivities(selectedActivity, activities, useSegmentMatching)) >= 2
    /\ useSegmentMatching

\* C13: every activity of the result with segment matching on is in the
\* result with it off, and when segment matching is on every activity shown
\* has segment efforts, one of them on a segment of the selected activity.
C13_RefinedIsSubsetSharingSegments ==
    /\ Range(similarActivities(selectedActivity, activities, TRUE))
          \subseteq Range(similarActivities(selectedActivity, activities, FALSE))
    /\ (useSegmentMatching /\ selectedActivity # NoActivity) =>
          \A a \in Range(similarActivities(selectedActivity, activities, useSegmentMatching)) :
              /\ a.has_efforts
              /\ \E i \in 1..Len(a.segment_efforts), j \in 1..Len(selectedActivity.segment_efforts) :
                    a.segment_efforts[i].segment = selectedActivity.segment_efforts[j].segment

OneRecordPerId(table) == \A r, q \in table : r.id = q.id => r = q

Prefixes(items) == {SubSeq(items, 1, k) : k \in 0..Len(items)}

\* The lists the step from the current state to the next may have written,
\* by the await the step resumes: the list handed to saveActivities when the
\* save succeeded, any prefix of it when the save was rejected.
WritesOfStep ==
    IF ref.pc = "saveSelected" /\ ref' # ref THEN {<<ref.detailedSelected>>}
    ELSE IF ref.pc = "saveDetails" /\ ref' # ref
    THEN IF useSegmentMatching' THEN {ref.newDetails} ELSE Prefixes(ref.newDetails)
    ELSE IF sync.pc = "fetch" /\ sync' # sync
    THEN IF lastSync'.outcome = "ok" THEN {fa.all} ELSE Prefixes(fa.all)
    ELSE {}

\* new is old with every id of items holding, in full, the last of items
\* with that id, and every other record as it was.
HoldsNewest(old, new, items) ==
    /\ \A r \in new :
          IF \E i \in 1..Len(items) : items[i].id = r.id
          THEN \E i \in 1..Len(items) :
                  /\ items[i] = r
                  /\ \A j \in (i + 1)..Len(items) : items[j].id # r.id
          ELSE r \in old
    /\ \A i \in 1..Len(items) : \E r \in new : r.id = items[i].id
    /\ \A r \in old : (\A i \in 1..Len(items) : items[i].id # r.id) => r \in new

\* C18: the store holds one record per id at every moment, and every step
\* that changes the store either empties it (the clear of a sync) or leaves
\* each id of the list it saved holding, in full, the last record of the
\* list with that id, the other records untouched.
C18_StoreHoldsNewestWhole ==
    /\ []OneRecordPerId(db)
    /\ [][db' # db =>
            \/ db' = {}
            \/ \E items \in WritesOfStep : HoldsNewest(db, db', items)]_vars

\* A sync that succeeded replaced a detailed record by the summary of the
\* same id, and a detail fetch after it replaced a summary by a detailed record.
C18_Witness ==
    /\ lastSync.outcome = "ok"
    /\ \E r \in lastSync.dbBefore, q \in lastSync.dbAfter :
          r.has_efforts /\ q.id = r.id /\ q = Summary(q.id)
    /\ \E r \in lastSync.dbAfter, q \in db :
          ~r.has_efforts /\ q.id = r.id /\ q.has_efforts
    /\ OneRecordPerId(db)

\* C11: no attempt of fetchWithProxyFallback follows, with the same bearer
\* token, an attempt that came back 401; a call whose direct attempt came
\* back 401 ends after that one attempt with an error, whatever the message
\* of the response body.
C11_NoRetryAfter401 ==
    /\ \A i, j \in 1..Len(transport.attempts) :
          (i < j /\ transport.attempts[i].status = 401)
              => transport.attempts[j].token # transport.attempts[i].token
    /\ (transport.pc = "done" /\ transport.direct.status = 401) =>
          /\ Len(transport.attempts) = 1
          /\ transport.result.kind = "throw"

\* C17: while a handleSync call is in flight the Sync button is disabled
\* (loading is true), so that no second call can start.
C17_SyncDisabledWhileSyncing == sync.pc # "idle" => loading

\* The positions of netLog holding a page request of fn.
PageRequestsAt(fn) ==
    {i \in 1..Len(netLog) : netLog[i].ev = "request" /\ netLog[i].fn = fn}

DelayBetweenRequests(fn) ==
    \A i, j \in PageRequestsAt(fn) :
        i < j => \E k \in (i + 1)..(j - 1) : netLog[k].ev = "delay" /\ netLog[k].fn = fn

\* C21: in fetchAllActivities and in fetchSegmentEfforts a delay lies
\* between every two consecutive page requests of the fetch.
C21_DelayBetweenPageRequests ==
    /\ DelayBetweenRequests("activities")
    /\ DelayBetweenRequests("efforts")

\* C22: after a handleSegmentClick call that completed, every effort on the
\* requested segment embedded in an in-memory activity, with a start date of
\* its own or of its activity, is in the local list, backfilled.
C22_EveryEmbeddedEffortCollected ==
    lastSeg.outcome = "ok" =>
        \A a \in 1..Len(activities) :
            \A m \in 1..Len(activities[a].segment_efforts) :
                (/\ activities[a].has_efforts
                 /\ activities[a].segment_efforts[m].segment = SegmentId
                 /\ (activities[a].segment_efforts[m].start_date # 0
                        \/ activities[a].start_date # 0))
                    => \E i \in 1..Len(lastSeg.local) :
                          Backfilled(lastSeg.local[i], activities[a].segment_efforts[m],
                                     activities[a])

\* The candidates a run may fetch: of the first 15 base matches, those
\* without segment efforts.
FirstFifteenLackingEfforts(similar) ==
    SelectSeq(SubSeq(similar, 1, IF Len(similar) < 15 THEN Len(similar) ELSE 15),
              LAMBDA a : ~a.has_efforts)

IsSuffix(s, t) == Len(s) <= Len(t) /\ s = SubSeq(t, Len(t) - Len(s) + 1, Len(t))

\* The step resumes the candidate loop of refineMatches.
CandidateStep == ref.pc = "candidates" /\ ref' # ref

\* C23: while a run fetches candidates, what is left to fetch is a suffix of
\* the base matches among the first 15 that lack segment efforts (so a run
\* fetches at most 15, and only those); each step of the loop issues one
\* fetch, for the next candidate, after the throttle delay; a fetch that
\* failed adds nothing and the loop goes on to the remaining candidates; a
\* save that succeeds stores every fetched detail.
C23_CandidateBatch ==
    /\ [](ref.pc \in {"candidates", "saveDetails"} =>
            /\ IsSuffix(ref.toFetch, FirstFifteenLackingEfforts(ref.similar))
            /\ Len(FirstFifteenLackingEfforts(ref.similar)) <= 15
            /\ Len(ref.newDetails) + Len(ref.toFetch)
                  <= Len(FirstFifteenLackingEfforts(ref.similar)))
    /\ [][CandidateStep =>
            /\ netLog' = netLog \o <<Delay("activity"),
                                     Get("activity", Head(ref.toFetch).id, ref.token)>>
            /\ Len(ref.toFetch) > 1 => ref'.pc = "candidates"
            /\ ref'.pc # "idle" =>
                  /\ ref'.toFetch = Tail(ref.toFetch)
                  /\ \/ ref'.newDetails = ref.newDetails
                     \/ /\ Len(ref'.newDetails) = Len(ref.newDetails) + 1
                        /\ SubSeq(ref'.newDetails, 1, Len(ref.newDetails)) = ref.newDetails
                        /\ ref'.newDetails[Len(ref'.newDetails)].id = Head(ref.toFetch).id]_vars
    /\ [][(ref.pc = "saveDetails" /\ ref' # ref /\ useSegmentMatching') =>
            \A i \in 1..Len(ref.newDetails) : ref.newDetails[i] \in db']_vars

\* Seventeen base matches, four of them summaries; the run fetched the two
\* among the first 15, the first fetch failed and the second is to be saved.
C23_Witness ==
    /\ ref.pc = "saveDetails"
    /\ Len(ref.similar) = 17
    /\ Len(SelectSeq(ref.similar, LAMBDA a : ~a.has_efforts)) = 4
    /\ Len(FirstFifteenLackingEfforts(ref.similar)) = 2
    /\ Len(ref.newDetails) = 1
    /\ ref.newDetails[1].id = FirstFifteenLackingEfforts(ref.similar)[2].id
    /\ Len(SelectSeq(netLog, LAMBDA e : e.ev = "delay" /\ e.fn = "activity")) = 2

\* ------------------------------------------------------------------- C24
\* A refineMatches call ends in this step without having refined.
RefineEndsUnrefined ==
    /\ Len(refineLog') = Len(refineLog) + 1
    /\ refineLog'[Len(refineLog')] \in {"failed", "noSegments"}

\* The matches the modal shows for the selected activity.
DisplayedMatches(selected, acts, segmentMatching) ==
    IF selected = NoActivity THEN <<>>
    ELSE similarActivities(selected, acts, segmentMatching)

TokensOf(a) == <<a.accessToken, a.refreshToken, a.expiresAt>>

RefreshRequestsIn(log) ==
    Cardinality({i \in DOMAIN log : log[i].ev = "request" /\ log[i].fn = "refresh"})

\* A getValidToken call of this step made the refresh request, which failed.
FailedRefreshStep ==
    /\ Len(tokenLog') = Len(tokenLog) + 1
    /\ tokenLog'[Len(tokenLog')].refreshed
    /\ tokenLog'[Len(tokenLog')].kind = "throw"

\* authenticateWithCode failed in this step: a handleAuthCode call settled
\* and no token was issued.
FailedExchangeStep ==
    /\ authCode'.awaiting < authCode.awaiting
    /\ issued' = issued

\* C25: a failed token refresh and a failed authorization-code exchange leave
\* accessToken, refreshToken and expiresAt as they were, in the state and in
\* localStorage, and are not retried: the failed refresh was requested once,
\* the failed exchange is followed by no request, and no step adds more
\* refresh requests than it makes getValidToken calls.
C25_FailedAuthLeavesCredentials ==
    [][/\ FailedRefreshStep \/ FailedExchangeStep =>
            /\ TokensOf(auth') = TokensOf(auth)
            /\ localStorage' = localStorage
       /\ FailedRefreshStep => RefreshRequestsIn(netLog') = RefreshRequestsIn(netLog) + 1
       /\ FailedExchangeStep => netLog' = netLog
       /\ RefreshRequestsIn(netLog') - RefreshRequestsIn(netLog)
            <= Len(tokenLog') - Len(tokenLog)]_vars

\* A code exchange has failed and then a refresh has failed; the tokens the
\* App started with are still in the state and in localStorage.
C25_Witness ==
    /\ issued = 0
    /\ authCode.awaiting = 0
    /\ \E i \in DOMAIN netLog : netLog[i] = ExchangeRequest
    /\ tokenLog # <<>>
    /\ tokenLog[Len(tokenLog)].refreshed
    /\ tokenLog[Len(tokenLog)].kind = "throw"
    /\ TokensOf(auth) = <<"a0", "r0", StartTime + TickSeconds>>
    /\ localStorage = Stored(auth)

\* ------------------------------------------------------------------- C26
\* The call read an expiresAt whose margin the clock is inside, and lacked
\* one of the three values a refresh needs.
InsideMarginUnrefreshable(call) ==
    /\ call.cap.expiresAt # 0
    /\ call.at > call.cap.expiresAt - 60
    /\ call.cap.refreshToken = "" \/ call.cap.clientId = "" \/ call.cap.clientSecret = ""

\* A getValidToken call of this step was inside the margin and unrefreshable.
UnrefreshableCallStep ==
    /\ Len(tokenLog') = Len(tokenLog) + 1
    /\ InsideMarginUnrefreshable(tokenLog'[Len(tokenLog')])

\* C26: a getValidToken call inside the expiry margin that lacks the
\* refreshToken, the clientId or the clientSecret issues no refresh request;
\* it returns the accessToken it read if that is non-empty and else throws
\* the missing-credentials error; the credentials in the state and in
\* localStorage are as before the call.
C26_UnrefreshableFallsBack ==
    [][UnrefreshableCallStep =>
          LET call == tokenLog'[Len(tokenLog')]
          IN /\ ~call.refreshed
             /\ RefreshRequestsIn(netLog') = RefreshRequestsIn(netLog)
             /\ IF call.cap.accessToken # ""
                THEN call.kind = "return" /\ call.token = call.cap.accessToken
                ELSE call.kind = "throw"
                     /\ call.msg = "Cannot refresh token. Missing credentials."
             /\ auth' = auth
             /\ localStorage' = localStorage]_vars

\* An unrefreshable call inside the margin got the stored token back, and
\* the credentials are still the stored ones.
C26_Witness ==
    /\ \E i \in 1..Len(tokenLog) :
          /\ InsideMarginUnrefreshable(tokenLog[i])
          /\ tokenLog[i].kind = "return"
          /\ tokenLog[i].token = "a0"
    /\ auth.accessToken = "a0"
    /\ localStorage = Stored(auth)

\* ------------------------------------------------------------------- C27
\* A handleSync call ends in this step: one that was awaiting, or one that
\* failed before its first await.
HandleSyncEnds ==
    \/ sync.pc # "idle" /\ sync'.pc = "idle"
    \/ sync.pc = "idle" /\ sync'.pc = "idle" /\ opsStarted' = opsStarted + 1

\* C27: with every request and store operation settling, a handleSync call
\* that is running comes to its end, also when the remote never returns an
\* empty page; and the step that ends a call, with success or with failure,
\* leaves loading false and syncProgress 0.
C27_SyncTerminatesAndResets ==
    /\ (sync.pc # "idle") ~> (sync.pc = "idle")
    /\ [][HandleSyncEnds => ~loading' /\ syncProgress' = 0]_vars

\* A sync against the remote that never returns an empty page has come to
\* its end after the 500 pages it may request, all of them requested with
\* progress reported, and the flags are reset.
C27_Witness ==
    /\ remoteActivities = NeverEmpty
    /\ sync.pc = "idle"
    /\ lastSync.outcome = "ok"
    /\ Len(activities) = MaxActivityPages
    /\ Len(progressLog) = MaxActivityPages
    /\ ~loading
    /\ syncProgress = 0

\* ------------------------------------------------------------------- C28
\* A step of the running refineMatches call.
RefineStep == ref.pc # "idle" /\ ref' # ref

\* C28: whenever segment matching is on, an activity is selected and it has
\* segment efforts; and no step of a running refineMatches call changes
\* which activity is selected (it neither reopens a closed modal nor goes
\* back from another selection).
C28_MatchingOnlyForRefinedSelection ==
    /\ [](useSegmentMatching =>
            /\ selectedActivity # NoActivity
            /\ selectedActivity.has_efforts
            /\ Len(selectedActivity.segment_efforts) > 0)
    /\ [][RefineStep => selectedActivity'.id = selectedActivity.id]_vars

\* ------------------------------------------------------------------- C29
\* No handleSync and no refineMatches call is running.
NothingInFlight == sync.pc = "idle" /\ ref.pc = "idle" /\ fa.pc = "idle"

\* No refineMatches call has ended in its catch block, and the one handleSync
\* call that ran, if any, succeeded.  (Clearing the database has no failing
\* outcome in the model.)
NoOperationFailed ==
    /\ \A i \in 1..Len(refineLog) : refineLog[i] # "failed"
    /\ lastSync.outcome # "failed"
    /\ Cardinality({i \in 1..Len(tokenLog) : tokenLog[i].op = "handleSync"}) <= 1

\* C29: whenever nothing is in flight and no operation has failed, the
\* activities in the state are the records of the store.
C29_StateMatchesStore ==
    (NothingInFlight /\ NoOperationFailed) => Range(activities) = db

\* ------------------------------------------------------------------- C30
\* C30: the activity list of the state never holds two records with the
\* same id.
C30_ActivityIdsDistinct ==
    \A i, j \in 1..Len(activities) : activities[i].id = activities[j].id => i = j

====
